---- MODULE Spec2Model ----
(***************************************************************************)
(* Vehicle counting and classification system: the job markers kept in the *)
(* blob store, the results API that derives a job's state from them, and    *)
(* the video processor and results processor that write them.               *)
(* One job is modelled; every store key below is that job's key.            *)
(***************************************************************************)
EXTENDS Integers, Sequences, FiniteSets, TLC

VARIABLES
    store,      \* the bucket: key -> object body, or Absent
    svc,        \* the detection service's job for the video
    sns,        \* the notifications the detection service has published
    vp,         \* the video processor's invocation for the upload event
    rp,         \* the results processor's invocations, one per delivery
    req,        \* the last results API request, the faults its store calls met, the calls it made
    resolved,   \* what get_job_status returned inside that request
    resp        \* the API Gateway response to req

vars == <<store, svc, sns, vp, rp, req, resolved, resp>>

(***************************************************************************)
(* The bucket.                                                             *)
(***************************************************************************)
\* uploads/{jobId}/{filename}, jobs/{jobId}/metadata.json,
\* processing/{jobId}.processing, results/{jobId}/completed.json,
\* errors/{jobId}/error.json, results/{jobId}/analysis.json,
\* results/{jobId}/detections.csv
Keys == {"upload", "metadata", "processing", "completed", "failed", "report", "export"}

MarkerKeys == {"completed", "failed", "processing"}

Absent == [kind |-> "absent"]

\* An object whose body is not JSON.
Corrupt == [kind |-> "corrupt"]

\* Python's None, as a scalar field and as a missing object.
None == "None"

NoObject == [kind |-> "none"]

\* dict.get(k, default)
Get(d, k, default) == IF k \in DOMAIN d THEN d[k] ELSE default

NoFaults == [client |-> FALSE, head |-> {}, get |-> {}, list |-> FALSE, presign |-> FALSE]

(***************************************************************************)
(* results-api: the job-state resolver.                                    *)
(* A fault record f names the store calls of one request that raise an     *)
(* error other than "object absent": f.client (the client cannot be        *)
(* created in a fresh container), f.head and f.get (keys whose head_object *)
(* / get_object raise), f.list (list_objects_v2 raises), f.presign.        *)
(***************************************************************************)
HeadObject(st, key, f) ==
    IF key \in f.head THEN "error"
    ELSE IF st[key] = Absent THEN "404" ELSE "ok"

\* "raise": get_s3_client() failed inside the try, and the except clause's own
\* s3_client.exceptions lookup raises out of the function.
S3ObjectExists(st, key, f) ==
    IF f.client THEN "raise"
    ELSE IF HeadObject(st, key, f) = "ok" THEN "true" ELSE "false"

\* get_object + read + decode + json.loads; Corrupt stands for any exception.
ReadJson(st, key, f) ==
    IF key \in f.get \/ st[key] = Absent \/ st[key] = Corrupt THEN Corrupt ELSE st[key]

ListUploads(st, f) ==
    IF f.list THEN "error"
    ELSE IF st["upload"] = Absent THEN "empty" ELSE "contents"

CompletedStatus(st, f) ==
    LET d == ReadJson(st, "completed", f)
    IN  IF d = Corrupt
        THEN [status |-> "completed", timestamp |-> None]
        ELSE [status |-> "completed",
              timestamp |-> Get(d, "completedAt", None),
              files |-> Get(d, "resultsFiles", <<>>)]

\* No inner handler: an unreadable body reaches the outer one.
FailedStatusUnguarded(st, f) ==
    LET d == ReadJson(st, "failed", f)
    IN  IF d = Corrupt
        THEN [status |-> "unknown", error |-> "body"]
        ELSE [status |-> "failed",
              error |-> Get(d, "error", "Processing failed"),
              timestamp |-> Get(d, "timestamp", None),
              stage |-> Get(d, "stage", None)]

FailedStatus(st, f) ==
    LET d == ReadJson(st, "failed", f)
    IN  IF d = Corrupt
        THEN [status |-> "failed", error |-> "Processing failed"]
        ELSE [status |-> "failed",
              error |-> Get(d, "error", "Processing failed"),
              timestamp |-> Get(d, "timestamp", None),
              stage |-> Get(d, "stage", None)]

ProcessingStatus(st, f) ==
    LET d == ReadJson(st, "processing", f)
    IN  IF d = Corrupt
        THEN [status |-> "processing", stage |-> "analysis"]
        ELSE [status |-> "processing",
              stage |-> Get(d, "stage", "analysis"),
              startTime |-> Get(d, "startTime", None)]

\* The report taken for the sign of completion.
GetJobStatusByReport(st, f) ==
    IF S3ObjectExists(st, "completed", f) = "raise"
    THEN [status |-> "unknown", error |-> "client"]
    ELSE IF S3ObjectExists(st, "report", f) = "true" THEN CompletedStatus(st, f)
    ELSE IF S3ObjectExists(st, "failed", f) = "true" THEN FailedStatus(st, f)
    ELSE IF S3ObjectExists(st, "processing", f) = "true" THEN ProcessingStatus(st, f)
    ELSE IF ListUploads(st, f) = "contents"
         THEN [status |-> "pending", message |-> "Waiting to start processing"]
    ELSE [status |-> "not_found"]

\* The probes in another order: the processing marker first.
GetJobStatusProcessingFirst(st, f) ==
    IF S3ObjectExists(st, "completed", f) = "raise"
    THEN [status |-> "unknown", error |-> "client"]
    ELSE IF S3ObjectExists(st, "processing", f) = "true" THEN ProcessingStatus(st, f)
    ELSE IF S3ObjectExists(st, "completed", f) = "true" THEN CompletedStatus(st, f)
    ELSE IF S3ObjectExists(st, "failed", f) = "true" THEN FailedStatus(st, f)
    ELSE IF ListUploads(st, f) = "contents"
         THEN [status |-> "pending", message |-> "Waiting to start processing"]
    ELSE [status |-> "not_found"]

\* The failed marker probed before the completed one.
GetJobStatusFailedFirst(st, f) ==
    IF S3ObjectExists(st, "completed", f) = "raise"
    THEN [status |-> "unknown", error |-> "client"]
    ELSE IF S3ObjectExists(st, "failed", f) = "true" THEN FailedStatus(st, f)
    ELSE IF S3ObjectExists(st, "completed", f) = "true" THEN CompletedStatus(st, f)
    ELSE IF S3ObjectExists(st, "processing", f) = "true" THEN ProcessingStatus(st, f)
    ELSE IF ListUploads(st, f) = "contents"
         THEN [status |-> "pending", message |-> "Waiting to start processing"]
    ELSE [status |-> "not_found"]

GetJobStatus(st, f) ==
    IF S3ObjectExists(st, "completed", f) = "raise"
    THEN [status |-> "unknown", error |-> "client"]
    ELSE IF S3ObjectExists(st, "completed", f) = "true" THEN CompletedStatus(st, f)
    ELSE IF S3ObjectExists(st, "failed", f) = "true" THEN FailedStatus(st, f)
    ELSE IF S3ObjectExists(st, "processing", f) = "true" THEN ProcessingStatus(st, f)
    ELSE IF ListUploads(st, f) = "contents"
         THEN [status |-> "pending", message |-> "Waiting to start processing"]
    ELSE [status |-> "not_found"]

(***************************************************************************)
(* results-api: the job identifier. A string is the sequence of its        *)
(* characters; a value that is no string keeps its kind.                   *)
(***************************************************************************)
Str(chars) == [kind |-> "str", chars |-> chars]

MinJobIdLength == 10

MaxJobIdLength == 100

\* str.startswith
StartsWith(chars, prefix) ==
    Len(chars) >= Len(prefix) /\ SubSeq(chars, 1, Len(prefix)) = prefix

\* sub in chars
Contains(chars, sub) ==
    \E k \in 1..(Len(chars) - Len(sub) + 1) : SubSeq(chars, k, k + Len(sub) - 1) = sub

\* not job_id: None or the empty string
Falsy(job_id) == job_id = NoObject \/ job_id = Str(<<>>)

\* The upper limit excluded.
IsValidJobIdExclusive(job_id) ==
    /\ ~Falsy(job_id) /\ job_id.kind = "str"
    /\ StartsWith(job_id.chars, <<"j", "o", "b", "-">>)
    /\ ~(Len(job_id.chars) < MinJobIdLength \/ Len(job_id.chars) >= MaxJobIdLength)
    /\ ~(\/ Contains(job_id.chars, <<".", ".">>)
          \/ Contains(job_id.chars, <<"/">>)
          \/ Contains(job_id.chars, <<"\\">>))

IsValidJobId(job_id) ==
    /\ ~Falsy(job_id) /\ job_id.kind = "str"
    /\ StartsWith(job_id.chars, <<"j", "o", "b", "-">>)
    /\ ~(Len(job_id.chars) < MinJobIdLength \/ Len(job_id.chars) > MaxJobIdLength)
    /\ ~(\/ Contains(job_id.chars, <<".", ".">>)
          \/ Contains(job_id.chars, <<"/">>)
          \/ Contains(job_id.chars, <<"\\">>))

(***************************************************************************)
(* results-api: the three views.                                           *)
(***************************************************************************)
SummaryTimeline == 10

CreateSuccessResponse(data) == [statusCode |-> 200, body |-> data]

CreateErrorResponse(code, message) == [statusCode |-> code, body |-> [error |-> message]]

\* None for a missing, unreadable or undecodable report body.
GetAnalysisResults(st, f) ==
    LET d == ReadJson(st, "report", f)
    IN  IF d = Corrupt THEN NoObject ELSE d

\* The flag raised already at the limit.
SummariseInclusive(results) ==
    IF "timeline" \in DOMAIN results
    THEN [k \in DOMAIN results \cup {"timeline_truncated"} |->
            IF k = "timeline"
            THEN SubSeq(results.timeline, 1,
                        IF Len(results.timeline) < SummaryTimeline
                        THEN Len(results.timeline) ELSE SummaryTimeline)
            ELSE IF k = "timeline_truncated"
            THEN Len(results.timeline) >= SummaryTimeline
            ELSE results[k]]
    ELSE results

\* results['timeline'][:10] and the truncation flag of the summary mode
Summarise(results) ==
    IF "timeline" \in DOMAIN results
    THEN [k \in DOMAIN results \cup {"timeline_truncated"} |->
            IF k = "timeline"
            THEN SubSeq(results.timeline, 1,
                        IF Len(results.timeline) < SummaryTimeline
                        THEN Len(results.timeline) ELSE SummaryTimeline)
            ELSE IF k = "timeline_truncated"
            THEN Len(results.timeline) > SummaryTimeline
            ELSE results[k]]
    ELSE results

\* A missing report answered as a missing job.
HandleResultsRequestNotFound(st, f, include_details) ==
    LET job_status == GetJobStatus(st, f)
    IN  IF job_status.status = "completed" /\ GetAnalysisResults(st, f) # NoObject
        THEN CreateSuccessResponse(
                [status |-> "completed", results |-> GetAnalysisResults(st, f)])
        ELSE CreateErrorResponse(404, "Job not found")

HandleResultsRequest(st, f, include_details) ==
    LET job_status == GetJobStatus(st, f)
    IN  CASE job_status.status = "completed" ->
                LET results == GetAnalysisResults(st, f)
                IN  IF results # NoObject
                    THEN CreateSuccessResponse(
                            [status |-> "completed",
                             results |-> IF include_details THEN results
                                         ELSE Summarise(results)])
                    ELSE CreateErrorResponse(500, "Results not available")
          [] job_status.status = "failed" ->
                CreateSuccessResponse(
                    [status |-> "failed",
                     error |-> Get(job_status, "error", "Processing failed"),
                     timestamp |-> Get(job_status, "timestamp", None)])
          [] job_status.status = "processing" ->
                CreateSuccessResponse(
                    [status |-> "processing",
                     message |-> "Video analysis in progress",
                     stage |-> Get(job_status, "stage", "unknown")])
          [] OTHER -> CreateErrorResponse(404, "Job not found")

HandleStatusRequest(st, f) ==
    LET job_status == GetJobStatus(st, f)
    IN  CASE job_status.status = "completed" ->
                CreateSuccessResponse(
                    [status |-> "completed",
                     completedAt |-> Get(job_status, "timestamp", None),
                     message |-> "Analysis completed successfully"])
          [] job_status.status = "failed" ->
                CreateSuccessResponse(
                    [status |-> "failed",
                     error |-> Get(job_status, "error", "Processing failed"),
                     failedAt |-> Get(job_status, "timestamp", None)])
          [] job_status.status = "processing" ->
                CreateSuccessResponse(
                    [status |-> "processing",
                     stage |-> Get(job_status, "stage", "unknown"),
                     startedAt |-> Get(job_status, "startTime", None)])
          [] OTHER -> CreateSuccessResponse([status |-> job_status.status])

DownloadFormats == {"json", "csv"}

ArtifactKey(download_format) == IF download_format = "json" THEN "report" ELSE "export"

\* A missing artifact answered as a retrieval error.
HandleDownloadRequestStrict(st, f, download_format) ==
    IF download_format \notin DownloadFormats
    THEN CreateErrorResponse(400, "Invalid format")
    ELSE IF GetJobStatus(st, f).status # "completed"
    THEN CreateErrorResponse(404, "Results not available for download")
    ELSE IF S3ObjectExists(st, ArtifactKey(download_format), f) # "true"
    THEN CreateErrorResponse(500, "Results not available")
    ELSE IF f.presign
    THEN CreateErrorResponse(500, "Failed to generate download URL")
    ELSE CreateSuccessResponse(
            [format |-> download_format,
             downloadUrl |-> ArtifactKey(download_format),
             expiresIn |-> 3600])

\* No look at the job's state before the artifact.
HandleDownloadRequestAnyState(st, f, download_format) ==
    IF download_format \notin DownloadFormats
    THEN CreateErrorResponse(400, "Invalid format")
    ELSE IF S3ObjectExists(st, ArtifactKey(download_format), f) # "true"
    THEN CreateErrorResponse(404, "Results file not found")
    ELSE IF f.presign
    THEN CreateErrorResponse(500, "Failed to generate download URL")
    ELSE CreateSuccessResponse(
            [format |-> download_format,
             downloadUrl |-> ArtifactKey(download_format),
             expiresIn |-> 3600])

HandleDownloadRequest(st, f, download_format) ==
    IF download_format \notin DownloadFormats
    THEN CreateErrorResponse(400, "Invalid format")
    ELSE IF GetJobStatus(st, f).status # "completed"
    THEN CreateErrorResponse(404, "Results not available for download")
    ELSE IF S3ObjectExists(st, ArtifactKey(download_format), f) # "true"
    THEN CreateErrorResponse(404, "Results file not found")
    ELSE IF f.presign
    THEN CreateErrorResponse(500, "Failed to generate download URL")
    ELSE CreateSuccessResponse(
            [format |-> download_format,
             downloadUrl |-> ArtifactKey(download_format),
             expiresIn |-> 3600])

Routes == {"results", "status", "download"}

\* lambda_handler's dispatch on the resource path
Route(st, r) ==
    CASE r.route = "download" -> HandleDownloadRequest(st, r.faults, r.format)
      [] r.route = "status"   -> HandleStatusRequest(st, r.faults)
      [] OTHER                -> HandleResultsRequest(st, r.faults, r.details)

(***************************************************************************)
(* results-processor: classification and filtering of the labels.          *)
(* Units: Timestamp in milliseconds (the detection's timestamp in seconds  *)
(* is Timestamp / 1000, kept as the millisecond count); raw confidences in *)
(* thousandths of a percent, rounded to hundredths; raw box fields in      *)
(* 1e-5 of the frame, rounded to 1e-4.                                      *)
(***************************************************************************)
VehicleTypes == {"cars", "trucks", "motorcycles", "buses", "vans", "emergency_vehicles"}

VEHICLE_LABELS ==
    [cars |-> {"Car", "Sedan", "Coupe", "Convertible", "Hatchback", "SUV", "Crossover"},
     trucks |-> {"Truck", "Pickup Truck", "Semi Truck", "Delivery Truck", "Dump Truck",
                 "Tow Truck"},
     motorcycles |-> {"Motorcycle", "Scooter", "Moped", "Motorbike"},
     buses |-> {"Bus", "School Bus", "Coach", "Double Decker"},
     vans |-> {"Van", "Minivan", "Cargo Van"},
     emergency_vehicles |-> {"Ambulance", "Fire Truck", "Police Car", "Emergency Vehicle"}]

\* 70.0 percent, in thousandths of a percent
MIN_CONFIDENCE == 70000

\* round(x, n) dropping one decimal digit: to the nearest, a tie to the even
\* neighbour (Python rounds the binary value, so a decimal tie may go either
\* way there; the inputs below hold no ties).
RoundDigit(x) ==
    LET q == x \div 10
        r == x % 10
    IN  IF r < 5 THEN q
        ELSE IF r > 5 THEN q + 1
        ELSE IF q % 2 = 0 THEN q ELSE q + 1

\* None when the label is no vehicle
ClassifyVehicleLabel(label_name) ==
    IF \E t \in VehicleTypes : label_name \in VEHICLE_LABELS[t]
    THEN CHOOSE t \in VehicleTypes : label_name \in VEHICLE_LABELS[t]
    ELSE None

Detection(label_detection, instance) ==
    LET label == label_detection.Label
        bbox == Get(instance, "BoundingBox", <<>>)
    IN  [timestamp |-> label_detection.Timestamp,
         vehicle_type |-> ClassifyVehicleLabel(label.Name),
         label_name |-> label.Name,
         confidence |-> RoundDigit(Get(instance, "Confidence", label.Confidence)),
         bounding_box |-> [left |-> RoundDigit(Get(bbox, "Left", 0)),
                           top |-> RoundDigit(Get(bbox, "Top", 0)),
                           width |-> RoundDigit(Get(bbox, "Width", 0)),
                           height |-> RoundDigit(Get(bbox, "Height", 0))]]

\* The instances taken without a check of their own confidence.
LabelDetectionsUnchecked(label_detection) ==
    LET label == label_detection.Label
    IN  IF label.Confidence < MIN_CONFIDENCE \/ ClassifyVehicleLabel(label.Name) = None
        THEN <<>>
        ELSE [k \in 1..Len(label.Instances) |-> Detection(label_detection, label.Instances[k])]

\* The detections of one label event, in instance order.
LabelDetections(label_detection) ==
    LET label == label_detection.Label
        kept == SelectSeq(label.Instances,
                    LAMBDA inst : Get(inst, "Confidence", label.Confidence) >= MIN_CONFIDENCE)
    IN  IF label.Confidence < MIN_CONFIDENCE \/ ClassifyVehicleLabel(label.Name) = None
        THEN <<>>
        ELSE [k \in 1..Len(kept) |-> Detection(label_detection, kept[k])]

\* The detections of the label events in their order (the list is halved so
\* that long lists are evaluated at a small depth).
RECURSIVE AllDetections(_)
AllDetections(labels) ==
    LET n == Len(labels)
        half == n \div 2
    IN  IF n = 0 THEN <<>>
        ELSE IF n = 1 THEN LabelDetections(labels[1])
        ELSE AllDetections(SubSeq(labels, 1, half))
                \o AllDetections(SubSeq(labels, half + 1, n))

\* list.sort(key=timestamp) is stable: a detection goes after those of a
\* smaller timestamp and after those of its own timestamp that came before it.
SortedPosition(s, i) ==
    Cardinality({j \in 1..Len(s) :
                    \/ s[j].timestamp < s[i].timestamp
                    \/ s[j].timestamp = s[i].timestamp /\ j <= i})

SortByTimestamp(s) ==
    [k \in 1..Len(s) |-> s[CHOOSE i \in 1..Len(s) : SortedPosition(s, i) = k]]

\* The detections returned in the order of the label events, unsorted.
ProcessVehicleLabelsUnsorted(rekognition_results) ==
    AllDetections(rekognition_results.Labels)

ProcessVehicleLabels(rekognition_results) ==
    SortByTimestamp(AllDetections(rekognition_results.Labels))

(***************************************************************************)
(* results-processor: the unique-vehicle clustering engine.                *)
(***************************************************************************)
\* 2.0 seconds, in milliseconds
TIME_WINDOW == 2000

\* 0.1 of the frame, in 1e-4 of the frame
SPATIAL_THRESHOLD == 1000

Abs(x) == IF x < 0 THEN 0 - x ELSE x

Max(a, b) == IF a > b THEN a ELSE b

\* The squared distance of the two centers, each center coordinate doubled
\* (left + width / 2 is (2 * left + width) / 2), so 4 * distance^2. It is
\* worked out exactly: the rounding of the doubles of the boxes is left out.
CalculateBboxDistance(bbox1, bbox2) ==
    LET dx == (2 * bbox1.left + bbox1.width) - (2 * bbox2.left + bbox2.width)
        dy == (2 * bbox1.top + bbox1.height) - (2 * bbox2.top + bbox2.height)
    IN  dx * dx + dy * dy

\* A timestamp is a binary floating-point number of seconds, Timestamp / 1000.0:
\* the double nearest to the quotient. It is kept here as the count ms of
\* milliseconds it was made from, and what the doubles do is worked out from
\* the counts. For ms > 0 the double is M * 2^(e - 52) with 2^e <= ms / 1000
\* < 2^(e + 1) and M the quotient ms * 2^(52 - e) / 1000 rounded to the
\* nearest integer, a tie to the even one. Timestamps are under 4096 seconds.
BinaryExponent(ms) ==
    IF ms >= 1000
    THEN CHOOSE e \in 0..11 : 1000 * 2^e <= ms /\ ms < 1000 * 2^(e + 1)
    ELSE 0 - (CHOOSE n \in 1..10 : 1000 <= ms * 2^n /\ ms * 2^n < 2000)

\* 2^k modulo 2000, by repeated squaring
RECURSIVE Pow2Mod(_)
Pow2Mod(k) ==
    IF k = 0 THEN 1
    ELSE LET h == Pow2Mod(k \div 2)
         IN  (h * h * (IF k % 2 = 1 THEN 2 ELSE 1)) % 2000

\* The double less the quotient ms / 1000, in units of 2^(e - 52) / 1000:
\* the remainder r of the division by 1000 is dropped, or 1000 - r is added.
RoundingError(ms) ==
    IF ms = 0 THEN 0
    ELSE LET rest == ((ms % 2000) * Pow2Mod(52 - BinaryExponent(ms))) % 2000
             r == rest % 1000
             odd == rest >= 1000
         IN  IF r < 500 THEN 0 - r
             ELSE IF r > 500 THEN 1000 - r
             ELSE IF odd THEN 500 ELSE 0 - 500

\* The rounding error in units of 2^(-62) / 1000.
ScaledError(ms) == IF ms = 0 THEN 0 ELSE RoundingError(ms) * 2^(BinaryExponent(ms) + 10)

\* abs(timestamp - last_seen) <= TIME_WINDOW on doubles. The difference of
\* two doubles is rounded to a double again, so it is at most 2.0 exactly
\* when the doubles differ by at most 2 + 2^(-52) (half the step to the next
\* double, the tie going to 2.0): for counts 2000 apart that is decided by
\* the two rounding errors, for other counts by the counts.
WithinTimeWindow(ms1, ms2) ==
    LET later == Max(ms1, ms2)
        earlier == IF ms1 < ms2 THEN ms1 ELSE ms2
    IN  IF later - earlier # TIME_WINDOW THEN later - earlier < TIME_WINDOW
        ELSE ScaledError(later) - ScaledError(earlier) <= 1000 * 2^10

Matches(detection, vehicle) ==
    /\ WithinTimeWindow(detection.timestamp, vehicle.last_seen)
    /\ CalculateBboxDistance(detection.bounding_box, vehicle.bbox)
          <= 4 * SPATIAL_THRESHOLD * SPATIAL_THRESHOLD

\* The closest of the matching vehicles taken instead of the first.
TrackClosest(detection, unique_vehicles) ==
    LET hits == {j \in 1..Len(unique_vehicles) : Matches(detection, unique_vehicles[j])}
        Far(j) == CalculateBboxDistance(detection.bounding_box, unique_vehicles[j].bbox)
    IN  IF hits = {}
        THEN Append(unique_vehicles,
                    [first_seen |-> detection.timestamp,
                     last_seen |-> detection.timestamp,
                     bbox |-> detection.bounding_box])
        ELSE LET j == CHOOSE h \in hits :
                         \A g \in hits : Far(h) < Far(g) \/ (Far(h) = Far(g) /\ h <= g)
             IN  [unique_vehicles EXCEPT
                    ![j].last_seen = Max(@, detection.timestamp),
                    ![j].bbox = detection.bounding_box]

\* One pass of the loop body: first fit, else a new vehicle.
Track(detection, unique_vehicles) ==
    LET hits == {j \in 1..Len(unique_vehicles) : Matches(detection, unique_vehicles[j])}
    IN  IF hits = {}
        THEN Append(unique_vehicles,
                    [first_seen |-> detection.timestamp,
                     last_seen |-> detection.timestamp,
                     bbox |-> detection.bounding_box])
        ELSE LET j == CHOOSE h \in hits : \A g \in hits : h <= g
             IN  [unique_vehicles EXCEPT
                    ![j].last_seen = Max(@, detection.timestamp),
                    ![j].bbox = detection.bounding_box]

\* The loop over the detections in their order. The list is halved and the
\* vehicles tracked over the first half are counted before the second half is
\* gone through (they are at least one), so that long lists are evaluated at a
\* small depth.
RECURSIVE TrackAll(_, _)
TrackAll(detections, unique_vehicles) ==
    LET n == Len(detections)
        half == n \div 2
    IN  IF n = 0 THEN unique_vehicles
        ELSE IF n = 1 THEN Track(detections[1], unique_vehicles)
        ELSE LET tracked == TrackAll(SubSeq(detections, 1, half), unique_vehicles)
             IN  IF Len(tracked) > 0 THEN TrackAll(SubSeq(detections, half + 1, n), tracked)
                 ELSE tracked

EstimateUniqueVehicles(detections) == Len(TrackAll(detections, <<>>))

RECURSIVE SumOver(_, _)
SumOver(f, S) ==
    IF S = {} THEN 0
    ELSE LET x == CHOOSE y \in S : TRUE IN f[x] + SumOver(f, S \ {x})

\* type_groups[vehicle_type]: the detections of the type, in their order (the
\* k-th of them is found by counting, so that long lists are evaluated at a
\* small depth).
TypeGroup(vehicle_detections, vehicle_type) ==
    LET of == {i \in 1..Len(vehicle_detections) :
                  vehicle_detections[i].vehicle_type = vehicle_type}
    IN  [k \in 1..Cardinality(of) |->
            vehicle_detections[CHOOSE i \in of : Cardinality({j \in of : j <= i}) = k]]

\* The total taken as the number of detections instead of the sum of the counts.
CountVehiclesByTypeTotalDetections(vehicle_detections) ==
    LET present == {vehicle_detections[i].vehicle_type : i \in 1..Len(vehicle_detections)}
        counts == [t \in present |->
                     EstimateUniqueVehicles(TypeGroup(vehicle_detections, t))]
    IN  [k \in present \cup {"total_vehicles"} |->
            IF k = "total_vehicles" THEN Len(vehicle_detections) ELSE counts[k]]

\* A count for each type that has a detection, and their total.
CountVehiclesByType(vehicle_detections) ==
    LET present == {vehicle_detections[i].vehicle_type : i \in 1..Len(vehicle_detections)}
        counts == [t \in present |->
                     EstimateUniqueVehicles(TypeGroup(vehicle_detections, t))]
    IN  [k \in present \cup {"total_vehicles"} |->
            IF k = "total_vehicles" THEN SumOver(counts, present) ELSE counts[k]]

(***************************************************************************)
(* results-processor: the report and the tabular export.                   *)
(***************************************************************************)
TimelineLimit == 100

GenerateDetectionTimeline(vehicle_detections) ==
    [i \in 1..Len(vehicle_detections) |->
        [timestamp |-> vehicle_detections[i].timestamp,
         vehicle_type |-> vehicle_detections[i].vehicle_type,
         label_name |-> vehicle_detections[i].label_name,
         confidence |-> vehicle_detections[i].confidence]]

CountWhere(s, P(_)) == Cardinality({i \in 1..Len(s) : P(s[i])})

\* The bands with the low one open at the threshold.
CalculateProcessingStatsOpenLow(video_metadata, vehicle_detections) ==
    [total_detections |-> Len(vehicle_detections),
     confidence_distribution |->
        [high_confidence |->
            CountWhere(vehicle_detections, LAMBDA d : d.confidence >= 9000),
         medium_confidence |->
            CountWhere(vehicle_detections,
                       LAMBDA d : 8000 <= d.confidence /\ d.confidence < 9000),
         low_confidence |->
            CountWhere(vehicle_detections,
                       LAMBDA d : MIN_CONFIDENCE < 10 * d.confidence
                                  /\ d.confidence < 8000)]]

\* The confidence bands and the detection total; confidences in hundredths.
CalculateProcessingStats(video_metadata, vehicle_detections) ==
    [total_detections |-> Len(vehicle_detections),
     confidence_distribution |->
        [high_confidence |->
            CountWhere(vehicle_detections, LAMBDA d : d.confidence >= 9000),
         medium_confidence |->
            CountWhere(vehicle_detections,
                       LAMBDA d : 8000 <= d.confidence /\ d.confidence < 9000),
         low_confidence |->
            CountWhere(vehicle_detections,
                       LAMBDA d : MIN_CONFIDENCE <= 10 * d.confidence
                                  /\ d.confidence < 8000)]]

Prefix(s, n) == SubSeq(s, 1, IF Len(s) < n THEN Len(s) ELSE n)

\* The detections cut to the timeline's length before anything is computed.
GenerateAnalysisResultsTruncating(job_metadata, vehicle_detections, rekognition_results, now) ==
    LET kept == Prefix(vehicle_detections, TimelineLimit)
    IN  [kind |-> "report",
         video_info |-> [filename |-> Get(job_metadata, "filename", "unknown.mp4"),
                         processed_at |-> now],
         vehicle_counts |-> CountVehiclesByType(kept),
         timeline |-> GenerateDetectionTimeline(kept),
         processing_stats |-> CalculateProcessingStats(rekognition_results.VideoMetadata, kept),
         confidence_threshold |-> MIN_CONFIDENCE,
         total_detections |-> Len(vehicle_detections)]

\* now: the invocation's clock reading (processed_at)
GenerateAnalysisResults(job_metadata, vehicle_detections, rekognition_results, now) ==
    [kind |-> "report",
     video_info |-> [filename |-> Get(job_metadata, "filename", "unknown.mp4"),
                     processed_at |-> now],
     vehicle_counts |-> CountVehiclesByType(vehicle_detections),
     timeline |-> Prefix(GenerateDetectionTimeline(vehicle_detections), TimelineLimit),
     processing_stats |->
        CalculateProcessingStats(rekognition_results.VideoMetadata, vehicle_detections),
     confidence_threshold |-> MIN_CONFIDENCE,
     total_detections |-> Len(vehicle_detections)]

CsvHeader ==
    <<"timestamp", "vehicle_type", "label_name", "confidence",
      "bbox_left", "bbox_top", "bbox_width", "bbox_height">>

\* The header row and one row per detection.
GenerateCsvReport(vehicle_detections) ==
    [kind |-> "export",
     rows |-> <<CsvHeader>> \o
        [i \in 1..Len(vehicle_detections) |->
            LET d == vehicle_detections[i]
            IN  <<d.timestamp, d.vehicle_type, d.label_name, d.confidence,
                  d.bounding_box.left, d.bounding_box.top,
                  d.bounding_box.width, d.bounding_box.height>>]]

(***************************************************************************)
(* The store calls of the pipeline, and what the pipeline starts from.      *)
(***************************************************************************)
\* A put that keeps an object already there.
PutIfAbsent(st, key, body) == IF st[key] = Absent THEN [st EXCEPT ![key] = body] ELSE st

Put(st, key, body) == [st EXCEPT ![key] = body]

Delete(st, key) == [st EXCEPT ![key] = Absent]

Call(op, key, ok) == [op |-> op, key |-> key, ok |-> ok]

EmptyStore == [k \in Keys |-> Absent]

Filenames == {"video.mp4", "notes.txt"}

\* is_supported_video_file on the names above
IsSupportedVideoFile(filename) == filename \in {"video.mp4"}

(***************************************************************************)
(* The labelled videos the detection service may answer with: pages of     *)
(* label events.                                                           *)
(***************************************************************************)
Box(l, t, w, h) == [Left |-> l, Top |-> t, Width |-> w, Height |-> h]

LabelEvent(ts, name, conf, instances) ==
    [Timestamp |-> ts, Label |-> [Name |-> name, Confidence |-> conf, Instances |-> instances]]

\* Two pages: one car seen twice within the windows, a truck, a low-confidence
\* bus instance and a label that is no vehicle.
VideoTwoPages ==
    << <<LabelEvent(1500, "Truck", 91204,
                    << [Confidence |-> 91204, BoundingBox |-> Box(60000, 50000, 20000, 20000)] >>),
         LabelEvent(0, "Car", 85500,
                    << [Confidence |-> 85500, BoundingBox |-> Box(10000, 10000, 20000, 20000)] >>)>>,
       <<LabelEvent(1000, "Car", 88001,
                    << [BoundingBox |-> Box(12000, 11000, 20000, 20000)] >>),
         LabelEvent(1000, "Bus", 75000,
                    << [Confidence |-> 69999, BoundingBox |-> Box(0, 0, 10000, 10000)] >>),
         LabelEvent(1200, "Person", 99000, << >>)>> >>

\* One page: two cars far apart at the same time.
VideoOnePage ==
    << <<LabelEvent(500, "Sedan", 95000,
                    << [Confidence |-> 95000, BoundingBox |-> Box(10000, 10000, 10000, 10000)],
                       [Confidence |-> 72346, BoundingBox |-> Box(70000, 70000, 10000, 10000)] >>)>> >>

Videos == {VideoTwoPages, VideoOnePage}

VideoMetadataOf(video) == [DurationMillis |-> 30000, FrameRate |-> 30]

RECURSIVE Flatten(_)
Flatten(pages) == IF pages = <<>> THEN <<>> ELSE Head(pages) \o Flatten(Tail(pages))

(***************************************************************************)
(* upload-handler and the client's upload.                                 *)
(***************************************************************************)
\* lambda_handler: the metadata put is best-effort.
UploadHandler(F) ==
    /\ store["metadata"] = Absent /\ store["upload"] = Absent /\ vp.pc = "idle"
    /\ \E fault \in F, filename \in Filenames :
         store' = IF fault THEN store
                  ELSE Put(store, "metadata",
                           [kind |-> "metadata", filename |-> filename, status |-> "pending"])
    /\ vp' = [vp EXCEPT !.pc = "url"]
    /\ UNCHANGED <<svc, sns, rp, req, resolved, resp>>

\* The client puts the video through the pre-signed URL.
ClientUpload ==
    /\ vp.pc = "url" /\ store["upload"] = Absent
    /\ \E filename \in Filenames :
         store' = Put(store, "upload", [kind |-> "video", filename |-> filename])
    /\ vp' = [vp EXCEPT !.pc = "event"]
    /\ UNCHANGED <<svc, sns, rp, req, resolved, resp>>

(***************************************************************************)
(* video-processor: lambda_handler, one step per store or service call.     *)
(***************************************************************************)
VpIdle ==
    [pc |-> "idle", error |-> None, marker_data |-> NoObject, calls |-> <<>>, statusCode |-> 0]

\* The record is valid and the job id is extracted; the extension is checked.
VpValidate ==
    /\ vp.pc = "event"
    /\ vp' = IF IsSupportedVideoFile(store["upload"].filename)
             THEN [vp EXCEPT !.pc = "head_video"]
             ELSE [vp EXCEPT !.pc = "error_marker", !.error = "Unsupported video format"]
    /\ UNCHANGED <<store, svc, sns, rp, req, resolved, resp>>

GetVideoMetadata(F) ==
    /\ vp.pc = "head_video"
    /\ \E fault \in F :
         vp' = IF fault \/ store["upload"] = Absent
               THEN [vp EXCEPT !.pc = "error_marker", !.error = "Could not access video file",
                               !.calls = Append(@, Call("head", "upload", FALSE))]
               ELSE [vp EXCEPT !.pc = "create_marker",
                               !.calls = Append(@, Call("head", "upload", TRUE))]
    /\ UNCHANGED <<store, svc, sns, rp, req, resolved, resp>>

ProcessingMarker ==
    [kind |-> "processing", status |-> "processing", startTime |-> "t0",
     stage |-> "rekognition_started"]

\* Its result is not looked at by the handler.
CreateProcessingMarker(F) ==
    /\ vp.pc = "create_marker"
    /\ \E fault \in F :
         /\ store' = IF fault THEN store ELSE Put(store, "processing", ProcessingMarker)
         /\ vp' = [vp EXCEPT !.pc = "start_rekognition",
                             !.calls = Append(@, Call("put", "processing", ~fault))]
    /\ UNCHANGED <<svc, sns, rp, req, resolved, resp>>

StartRekognitionAnalysis(F) ==
    /\ vp.pc = "start_rekognition"
    /\ \E fault \in F :
         /\ svc' = IF fault THEN svc ELSE [svc EXCEPT !.status = "IN_PROGRESS"]
         /\ vp' = IF fault
                  THEN [vp EXCEPT !.pc = "error_marker",
                                  !.error = "Failed to start video analysis",
                                  !.calls = Append(@, Call("start", "rekognition", FALSE))]
                  ELSE [vp EXCEPT !.pc = "update_get",
                                  !.calls = Append(@, Call("start", "rekognition", TRUE))]
    /\ UNCHANGED <<store, sns, rp, req, resolved, resp>>

\* update_processing_marker: the read ...
UpdateProcessingMarkerGet(F) ==
    /\ vp.pc = "update_get"
    /\ \E fault \in F :
         LET failed == fault \/ store["processing"] = Absent \/ store["processing"] = Corrupt
         IN  vp' = IF failed
                   THEN [vp EXCEPT !.pc = "done", !.statusCode = 200,
                                   !.calls = Append(@, Call("get", "processing", FALSE))]
                   ELSE [vp EXCEPT !.pc = "update_put", !.marker_data = store["processing"],
                                   !.calls = Append(@, Call("get", "processing", TRUE))]
    /\ UNCHANGED <<store, svc, sns, rp, req, resolved, resp>>

UpdatedMarker(marker_data) ==
    [k \in DOMAIN marker_data \cup {"rekognitionJobId", "lastUpdated"} |->
        CASE k = "rekognitionJobId" -> "rekognition-1"
          [] k = "stage" -> "rekognition_running"
          [] k = "lastUpdated" -> "t0"
          [] OTHER -> marker_data[k]]

\* ... and the write of what was read, changed.
UpdateProcessingMarkerPut(F) ==
    /\ vp.pc = "update_put"
    /\ \E fault \in F :
         /\ store' = IF fault THEN store
                     ELSE Put(store, "processing", UpdatedMarker(vp.marker_data))
         /\ vp' = [vp EXCEPT !.pc = "done", !.statusCode = 200,
                             !.calls = Append(@, Call("put", "processing", ~fault))]
    /\ UNCHANGED <<svc, sns, rp, req, resolved, resp>>

ErrorMarker(error_message) ==
    [kind |-> "failed", status |-> "failed", error |-> error_message,
     timestamp |-> "t0", stage |-> "video_processing"]

CreateErrorMarker(F) ==
    /\ vp.pc = "error_marker"
    /\ \E fault \in F :
         /\ store' = IF fault THEN store ELSE Put(store, "failed", ErrorMarker(vp.error))
         /\ vp' = [vp EXCEPT !.pc = "done", !.statusCode = 200,
                             !.calls = Append(@, Call("put", "failed", ~fault))]
    /\ UNCHANGED <<svc, sns, rp, req, resolved, resp>>

VideoProcessor(F) ==
    \/ VpValidate
    \/ GetVideoMetadata(F)
    \/ CreateProcessingMarker(F)
    \/ StartRekognitionAnalysis(F)
    \/ UpdateProcessingMarkerGet(F)
    \/ UpdateProcessingMarkerPut(F)
    \/ CreateErrorMarker(F)

(***************************************************************************)
(* The detection service: the job ends and its notification is published.  *)
(***************************************************************************)
Notification(status) ==
    [JobId |-> "rekognition-1", Status |-> status, JobTag |-> "job",
     StatusMessage |-> IF status = "FAILED" THEN "Invalid video format" ELSE None]

JobEnds ==
    /\ svc.status = "IN_PROGRESS"
    /\ \E status \in {"SUCCEEDED", "FAILED"}, video \in Videos :
         /\ svc' = [status |-> status,
                    pages |-> IF status = "SUCCEEDED" THEN video ELSE <<>>]
         /\ sns' = sns \cup {Notification(status)}
    /\ UNCHANGED <<store, vp, rp, req, resolved, resp>>

(***************************************************************************)
(* results-processor: lambda_handler for one notification, one step per    *)
(* store or service call.                                                  *)
(***************************************************************************)
Invocations == {1, 2}

\* datetime.utcnow() of an invocation
Clock(i) == <<"t1", "t2", "t3">>[i]

RpIdle ==
    [pc |-> "idle", msg |-> NoObject, bucket_name |-> None, next |-> 1, all_labels |-> <<>>,
     rekognition_results |-> NoObject, job_metadata |-> NoObject,
     vehicle_detections |-> <<>>, analysis_results |-> NoObject,
     error |-> None, calls |-> <<>>, statusCode |-> 0]

\* A notification that lacks the job tag.
UntaggedNotification ==
    [JobId |-> "rekognition-1", Status |-> "SUCCEEDED", JobTag |-> None, StatusMessage |-> None]

\* A notification of a job that has not ended.
ProgressNotification ==
    [JobId |-> "rekognition-1", Status |-> "IN_PROGRESS", JobTag |-> "job", StatusMessage |-> None]

BucketName == "bucket"

\* STORAGE_BUCKET_NAME set, or not set
BucketNames == {BucketName, None}

\* The notifications the handler does not act on.
OtherNotifications == {UntaggedNotification, ProgressNotification}

\* Every status other than SUCCEEDED handled as a failure of the job.
ReceiveFailingOthers(i, others, buckets) ==
    /\ rp[i].pc = "idle"
    /\ \E m \in sns \cup others, bucket_name \in buckets :
         rp' = [rp EXCEPT ![i] =
                  LET got == [@ EXCEPT !.msg = m, !.bucket_name = bucket_name]
                  IN  IF m.JobId = None \/ m.JobTag = None \/ bucket_name = None
                      THEN [got EXCEPT !.pc = "done", !.statusCode = 200]
                      ELSE IF m.Status = "SUCCEEDED"
                      THEN [got EXCEPT !.pc = "fetch"]
                      ELSE [got EXCEPT !.pc = "error", !.error = "Video analysis failed"]]
    /\ UNCHANGED <<store, svc, sns, vp, req, resolved, resp>>

\* The dispatch without the FAILED branch.
ReceiveIgnoringFailed(i, others, buckets) ==
    /\ rp[i].pc = "idle"
    /\ \E m \in sns \cup others, bucket_name \in buckets :
         rp' = [rp EXCEPT ![i] =
                  LET got == [@ EXCEPT !.msg = m, !.bucket_name = bucket_name]
                  IN  IF m.JobId = None \/ m.JobTag = None \/ bucket_name = None
                      THEN [got EXCEPT !.pc = "done", !.statusCode = 200]
                      ELSE IF m.Status = "SUCCEEDED"
                      THEN [got EXCEPT !.pc = "fetch"]
                      ELSE [got EXCEPT !.pc = "done", !.statusCode = 200]]
    /\ UNCHANGED <<store, svc, sns, vp, req, resolved, resp>>

\* The loop body of lambda_handler up to the dispatch on the status.
Receive(i, others, buckets) ==
    /\ rp[i].pc = "idle"
    /\ \E m \in sns \cup others, bucket_name \in buckets :
         rp' = [rp EXCEPT ![i] =
                  LET got == [@ EXCEPT !.msg = m, !.bucket_name = bucket_name]
                  IN  IF m.JobId = None \/ m.JobTag = None \/ bucket_name = None
                      THEN [got EXCEPT !.pc = "done", !.statusCode = 200]
                      ELSE IF m.Status = "SUCCEEDED"
                      THEN [got EXCEPT !.pc = "fetch"]
                      ELSE IF m.Status = "FAILED"
                      THEN [got EXCEPT !.pc = "error", !.error = "Video analysis failed"]
                      ELSE [got EXCEPT !.pc = "done", !.statusCode = 200]]
    /\ UNCHANGED <<store, svc, sns, vp, req, resolved, resp>>

FetchOutcomes(F) == {"ok"} \cup (IF TRUE \in F THEN {"raise", "not_succeeded"} ELSE {})

\* The loop ending at a failed page with the labels fetched so far.
GetRekognitionResultsPartial(i, F) ==
    /\ rp[i].pc = "fetch"
    /\ \E outcome \in FetchOutcomes(F) :
         LET n == rp[i].next
             labels == IF outcome = "ok" THEN rp[i].all_labels \o svc.pages[n]
                       ELSE rp[i].all_labels
         IN  rp' = [rp EXCEPT ![i] =
                      IF outcome = "ok" /\ n < Len(svc.pages)
                      THEN [@ EXCEPT !.next = n + 1, !.all_labels = labels,
                                     !.calls = Append(@, Call("get_labels", "rekognition", TRUE))]
                      ELSE [@ EXCEPT !.pc = "metadata", !.all_labels = labels,
                                     !.rekognition_results =
                                        [Labels |-> labels,
                                         VideoMetadata |-> VideoMetadataOf(svc.pages),
                                         JobStatus |-> "SUCCEEDED"],
                                     !.calls = Append(@, Call("get_labels", "rekognition",
                                                              outcome = "ok"))]]
    /\ UNCHANGED <<store, svc, sns, vp, req, resolved, resp>>

\* The loop keeping the labels of the page just fetched in place of those
\* collected so far.
GetRekognitionResultsLastPage(i, F) ==
    /\ rp[i].pc = "fetch"
    /\ \E outcome \in FetchOutcomes(F) :
         LET n == rp[i].next
             labels == svc.pages[n]
         IN  rp' = [rp EXCEPT ![i] =
                      IF outcome # "ok"
                      THEN [@ EXCEPT !.pc = "error",
                                     !.error = "Failed to process Rekognition results",
                                     !.calls = Append(@, Call("get_labels", "rekognition", FALSE))]
                      ELSE IF n < Len(svc.pages)
                      THEN [@ EXCEPT !.next = n + 1, !.all_labels = labels,
                                     !.calls = Append(@, Call("get_labels", "rekognition", TRUE))]
                      ELSE [@ EXCEPT !.pc = "metadata", !.all_labels = labels,
                                     !.rekognition_results =
                                        [Labels |-> labels,
                                         VideoMetadata |-> VideoMetadataOf(svc.pages),
                                         JobStatus |-> "SUCCEEDED"],
                                     !.calls = Append(@, Call("get_labels", "rekognition", TRUE))]]
    /\ UNCHANGED <<store, svc, sns, vp, req, resolved, resp>>

\* get_rekognition_results: one get_label_detection call of its loop
GetRekognitionResults(i, F) ==
    /\ rp[i].pc = "fetch"
    /\ \E outcome \in FetchOutcomes(F) :
         LET n == rp[i].next
             labels == rp[i].all_labels \o svc.pages[n]
         IN  rp' = [rp EXCEPT ![i] =
                      IF outcome # "ok"
                      THEN [@ EXCEPT !.pc = "error",
                                     !.error = "Failed to process Rekognition results",
                                     !.calls = Append(@, Call("get_labels", "rekognition", FALSE))]
                      ELSE IF n < Len(svc.pages)
                      THEN [@ EXCEPT !.next = n + 1, !.all_labels = labels,
                                     !.calls = Append(@, Call("get_labels", "rekognition", TRUE))]
                      ELSE [@ EXCEPT !.pc = "metadata", !.all_labels = labels,
                                     !.rekognition_results =
                                        [Labels |-> labels,
                                         VideoMetadata |-> VideoMetadataOf(svc.pages),
                                         JobStatus |-> "SUCCEEDED"],
                                     !.calls = Append(@, Call("get_labels", "rekognition", TRUE))]]
    /\ UNCHANGED <<store, svc, sns, vp, req, resolved, resp>>

\* get_job_metadata, and the default when it cannot be read
GetJobMetadata(i, F) ==
    /\ rp[i].pc = "metadata"
    /\ \E fault \in F :
         LET failed == fault \/ store["metadata"] = Absent
         IN  rp' = [rp EXCEPT ![i] =
                      [@ EXCEPT !.pc = "assemble",
                                !.job_metadata = IF failed THEN [filename |-> "unknown.mp4"]
                                                 ELSE store["metadata"],
                                !.calls = Append(@, Call("get", "metadata", ~failed))]]
    /\ UNCHANGED <<store, svc, sns, vp, req, resolved, resp>>

\* process_vehicle_labels and generate_analysis_results
Assemble(i) ==
    /\ rp[i].pc = "assemble"
    /\ LET vehicle_detections == ProcessVehicleLabels(rp[i].rekognition_results)
       IN  rp' = [rp EXCEPT ![i] =
                    [@ EXCEPT !.pc = "put_json",
                              !.vehicle_detections = vehicle_detections,
                              !.analysis_results =
                                 GenerateAnalysisResults(rp[i].job_metadata, vehicle_detections,
                                                         rp[i].rekognition_results, Clock(i))]]
    /\ UNCHANGED <<store, svc, sns, vp, req, resolved, resp>>

CompletionData(i) ==
    [kind |-> "completed", status |-> "completed", completedAt |-> Clock(i),
     resultsFiles |-> <<"report", "export">>]

\* A put whose failure is swallowed: the sequence goes on.
SavePutSwallowing(i, F, at, key, body, then) ==
    /\ rp[i].pc = at
    /\ \E fault \in F :
         /\ store' = IF fault THEN store ELSE Put(store, key, body)
         /\ rp' = [rp EXCEPT ![i] =
                     [@ EXCEPT !.pc = then, !.calls = Append(@, Call("put", key, ~fault))]]
    /\ UNCHANGED <<svc, sns, vp, req, resolved, resp>>

\* A put of save_results_to_s3: on a fault the rest of the sequence is skipped.
SavePut(i, F, at, key, body, then) ==
    /\ rp[i].pc = at
    /\ \E fault \in F :
         /\ store' = IF fault THEN store ELSE Put(store, key, body)
         /\ rp' = [rp EXCEPT ![i] =
                     IF fault
                     THEN [@ EXCEPT !.pc = "error",
                                    !.error = "Failed to process Rekognition results",
                                    !.calls = Append(@, Call("put", key, FALSE))]
                     ELSE [@ EXCEPT !.pc = then,
                                    !.calls = Append(@, Call("put", key, TRUE))]]
    /\ UNCHANGED <<svc, sns, vp, req, resolved, resp>>

SaveJson(i, F) == SavePut(i, F, "put_json", "report", rp[i].analysis_results, "put_csv")

\* The export's put with its failure swallowed: the completed marker follows.
SaveCsvSwallowing(i, F) ==
    SavePutSwallowing(i, F, "put_csv", "export", GenerateCsvReport(rp[i].vehicle_detections),
                      "put_completed")

SaveCsv(i, F) ==
    SavePut(i, F, "put_csv", "export", GenerateCsvReport(rp[i].vehicle_detections),
            "put_completed")

\* The completed marker written before the export.
SaveCompletedEarly(i, F) == SavePut(i, F, "put_csv", "completed", CompletionData(i), "cleanup")

SaveCompleted(i, F) == SavePut(i, F, "put_completed", "completed", CompletionData(i), "cleanup")

\* Its failure is logged and nothing more.
CleanupProcessingMarker(i, F) ==
    /\ rp[i].pc = "cleanup"
    /\ \E fault \in F :
         /\ store' = IF fault THEN store ELSE Delete(store, "processing")
         /\ rp' = [rp EXCEPT ![i] =
                     [@ EXCEPT !.pc = "done", !.statusCode = 200,
                               !.calls = Append(@, Call("delete", "processing", ~fault))]]
    /\ UNCHANGED <<svc, sns, vp, req, resolved, resp>>

ErrorResult(i, error_message) ==
    [kind |-> "failed", status |-> "failed", error |-> error_message,
     timestamp |-> Clock(i), stage |-> "results_processing"]

\* The put's failure reaching lambda_handler's own handler.
CreateErrorResultRaising(i, F) ==
    /\ rp[i].pc = "error"
    /\ \E fault \in F :
         /\ store' = IF fault THEN store ELSE Put(store, "failed", ErrorResult(i, rp[i].error))
         /\ rp' = [rp EXCEPT ![i] =
                     [@ EXCEPT !.pc = "done", !.statusCode = IF fault THEN 500 ELSE 200,
                               !.calls = Append(@, Call("put", "failed", ~fault))]]
    /\ UNCHANGED <<svc, sns, vp, req, resolved, resp>>

\* Best-effort: a failed put is logged and nothing more.
CreateErrorResult(i, F) ==
    /\ rp[i].pc = "error"
    /\ \E fault \in F :
         /\ store' = IF fault THEN store ELSE Put(store, "failed", ErrorResult(i, rp[i].error))
         /\ rp' = [rp EXCEPT ![i] =
                     [@ EXCEPT !.pc = "done", !.statusCode = 200,
                               !.calls = Append(@, Call("put", "failed", ~fault))]]
    /\ UNCHANGED <<svc, sns, vp, req, resolved, resp>>

ResultsProcessor(i, F) ==
    \/ GetRekognitionResults(i, F)
    \/ GetJobMetadata(i, F)
    \/ Assemble(i)
    \/ SaveJson(i, F)
    \/ SaveCsv(i, F)
    \/ SaveCompleted(i, F)
    \/ CleanupProcessingMarker(i, F)
    \/ CreateErrorResult(i, F)

\* The invocation stops between two puts of save_results_to_s3, after the
\* report or after the export (the container is killed or times out).
Crash(i) ==
    /\ rp[i].pc \in {"put_csv", "put_completed"}
    /\ rp' = [rp EXCEPT ![i] = [@ EXCEPT !.pc = "crashed"]]
    /\ UNCHANGED <<store, svc, sns, vp, req, resolved, resp>>

(***************************************************************************)
(* results-api: the store calls a request makes, in order, each with       *)
(* whether it gave its result (a get counts as failed when the body cannot *)
(* be fetched or decoded). No call is made when the client cannot be       *)
(* created.                                                                *)
(***************************************************************************)
Probe(st, key, f) == Call("head", key, HeadObject(st, key, f) = "ok")

Read(st, key, f) == Call("get", key, ReadJson(st, key, f) # Corrupt)

GetJobStatusCalls(st, f) ==
    IF f.client THEN <<>>
    ELSE IF S3ObjectExists(st, "completed", f) = "true"
    THEN <<Probe(st, "completed", f), Read(st, "completed", f)>>
    ELSE IF S3ObjectExists(st, "failed", f) = "true"
    THEN <<Probe(st, "completed", f), Probe(st, "failed", f), Read(st, "failed", f)>>
    ELSE IF S3ObjectExists(st, "processing", f) = "true"
    THEN <<Probe(st, "completed", f), Probe(st, "failed", f), Probe(st, "processing", f),
           Read(st, "processing", f)>>
    ELSE <<Probe(st, "completed", f), Probe(st, "failed", f), Probe(st, "processing", f),
           Call("list", "upload", ListUploads(st, f) # "error")>>

HandleResultsCalls(st, f) ==
    GetJobStatusCalls(st, f)
        \o (IF GetJobStatus(st, f).status = "completed"
            THEN <<Read(st, "report", f)>> ELSE <<>>)

\* A status view that fetches the report as the results view does.
HandleStatusCallsWithReport(st, f) == HandleResultsCalls(st, f)

HandleStatusCalls(st, f) == GetJobStatusCalls(st, f)

HandleDownloadCalls(st, f, download_format) ==
    IF download_format \notin DownloadFormats THEN <<>>
    ELSE GetJobStatusCalls(st, f)
        \o (IF GetJobStatus(st, f).status # "completed" THEN <<>>
            ELSE <<Probe(st, ArtifactKey(download_format), f)>>
                \o (IF S3ObjectExists(st, ArtifactKey(download_format), f) # "true" THEN <<>>
                    ELSE <<Call("presign", ArtifactKey(download_format), ~f.presign)>>))

RouteCalls(st, r) ==
    CASE r.route = "download" -> HandleDownloadCalls(st, r.faults, r.format)
      [] r.route = "status"   -> HandleStatusCalls(st, r.faults)
      [] OTHER                -> HandleResultsCalls(st, r.faults)

(***************************************************************************)
(* results-api: one request.                                               *)
(***************************************************************************)
FaultChoices(heads, gets, presigns) ==
    {[client |-> FALSE, head |-> h, get |-> g, list |-> l, presign |-> p] :
        h \in SUBSET heads, g \in SUBSET gets, l \in BOOLEAN, p \in presigns}
    \cup {[client |-> TRUE, head |-> {}, get |-> {}, list |-> FALSE, presign |-> FALSE]}

\* The requests, each with the faults of the calls its route can make.
Requests ==
    {[route |-> "status", format |-> None, details |-> TRUE, faults |-> f, calls |-> <<>>,
      job_id |-> NoObject] :
        f \in FaultChoices(MarkerKeys, MarkerKeys, {FALSE})}
    \cup {[route |-> "results", format |-> None, details |-> d, faults |-> f, calls |-> <<>>,
           job_id |-> NoObject] :
        d \in BOOLEAN, f \in FaultChoices(MarkerKeys, MarkerKeys \cup {"report"}, {FALSE})}
    \cup UNION {{[route |-> "download", format |-> fmt, details |-> TRUE, faults |-> f,
                   calls |-> <<>>, job_id |-> NoObject] :
                    f \in FaultChoices(MarkerKeys \cup {ArtifactKey(fmt)}, MarkerKeys, BOOLEAN)} :
                 fmt \in DownloadFormats}
    \cup {[route |-> "download", format |-> "xml", details |-> TRUE, faults |-> NoFaults,
           calls |-> <<>>, job_id |-> NoObject]}

NoRequest ==
    [route |-> "none", format |-> None, details |-> TRUE, faults |-> NoFaults, calls |-> <<>>,
     job_id |-> NoObject]

\* Whether the request reaches get_job_status.
Resolves(r) ==
    /\ IsValidJobId(r.job_id)
    /\ r.route \in {"status", "results"} \/ r.format \in DownloadFormats

\* An identifier as generate_job_id makes it: job-YYYYMMDD-HHMMSS-xxxxxxxx
JobId ==
    Str(<<"j", "o", "b", "-", "2", "0", "2", "4", "0", "1", "0", "1", "-",
          "1", "2", "0", "0", "0", "0", "-", "a", "b", "c", "1", "2", "3", "4", "5">>)

\* The request routed, and the store probed, before the job id is checked.
LambdaHandlerProbingFirst(job_ids, requests) ==
    /\ req = NoRequest
    /\ \E r \in requests, job_id \in job_ids :
         LET made == [r EXCEPT !.job_id = job_id, !.calls = RouteCalls(store, r)]
         IN  IF Falsy(job_id)
             THEN /\ req' = made
                  /\ resolved' = NoObject
                  /\ resp' = CreateErrorResponse(400, "Missing jobId in path parameters")
             ELSE IF ~IsValidJobId(job_id)
             THEN /\ req' = made
                  /\ resolved' = NoObject
                  /\ resp' = CreateErrorResponse(400, "Invalid jobId format")
             ELSE /\ req' = made
                  /\ resolved' = IF Resolves(made) THEN GetJobStatus(store, r.faults)
                                  ELSE NoObject
                  /\ resp' = Route(store, r)
    /\ UNCHANGED <<store, svc, sns, vp, rp>>

\* lambda_handler: the job id is checked, then the request is routed.
LambdaHandler(job_ids, requests) ==
    /\ req = NoRequest
    /\ \E r \in requests, job_id \in job_ids :
         LET made == [r EXCEPT !.job_id = job_id]
         IN  IF Falsy(job_id)
             THEN /\ req' = made
                  /\ resolved' = NoObject
                  /\ resp' = CreateErrorResponse(400, "Missing jobId in path parameters")
             ELSE IF ~IsValidJobId(job_id)
             THEN /\ req' = made
                  /\ resolved' = NoObject
                  /\ resp' = CreateErrorResponse(400, "Invalid jobId format")
             ELSE /\ req' = [made EXCEPT !.calls = RouteCalls(store, r)]
                  /\ resolved' = IF Resolves(made) THEN GetJobStatus(store, r.faults)
                                  ELSE NoObject
                  /\ resp' = Route(store, r)
    /\ UNCHANGED <<store, svc, sns, vp, rp>>

\* A request that tidies the bucket: a stale processing marker under a
\* completed one is deleted.
ApiRequestTidying ==
    /\ req = NoRequest
    /\ \E r \in Requests :
         LET made == [r EXCEPT !.job_id = JobId]
         IN  /\ req' = [made EXCEPT !.calls = RouteCalls(store, r)]
             /\ resolved' = IF Resolves(made) THEN GetJobStatus(store, r.faults) ELSE NoObject
             /\ resp' = Route(store, r)
             /\ store' = IF Resolves(made) /\ GetJobStatus(store, r.faults).status = "completed"
                         THEN Delete(store, "processing") ELSE store
    /\ UNCHANGED <<svc, sns, vp, rp>>

\* One request against the bucket as it is; the API keeps nothing between requests.
ApiRequest == LambdaHandler({JobId}, Requests)

(***************************************************************************)
(* The specifications.                                                     *)
(***************************************************************************)
Quiet ==
    /\ svc = [status |-> "none", pages |-> <<>>]
    /\ sns = {}
    /\ vp = VpIdle
    /\ rp = [i \in Invocations |-> RpIdle]
    /\ req = NoRequest
    /\ resolved = NoObject
    /\ resp = [statusCode |-> 0]

\* The pipeline of one job from an empty bucket: any store or service call may
\* fail, and the notification may be delivered twice.
Init == store = EmptyStore /\ Quiet

Next ==
    \/ UploadHandler(BOOLEAN)
    \/ ClientUpload
    \/ VideoProcessor(BOOLEAN)
    \/ JobEnds
    \/ \E i \in Invocations :
         \/ Receive(i, OtherNotifications, BucketNames)
         \/ ResultsProcessor(i, BOOLEAN)

Spec == Init /\ [][Next]_vars

\* The intended flow: one invocation of each processor, no failing call.
NextIntended ==
    \/ UploadHandler({FALSE})
    \/ ClientUpload
    \/ VideoProcessor({FALSE})
    \/ JobEnds
    \/ Receive(1, {}, {BucketName})
    \/ ResultsProcessor(1, {FALSE})

SpecIntended == Init /\ [][NextIntended]_vars

\* One results-processor invocation that may stop before the completed marker,
\* and a request of the results API after it stopped.
NextCrash ==
    \/ UploadHandler(BOOLEAN)
    \/ ClientUpload
    \/ VideoProcessor(BOOLEAN)
    \/ JobEnds
    \/ Receive(1, {}, {BucketName})
    \/ ResultsProcessor(1, BOOLEAN)
    \/ Crash(1)
    \/ rp[1].pc = "crashed" /\ ApiRequest

SpecCrash == Init /\ [][NextCrash]_vars

\* The results API over every combination of the job's objects.
SampleReport ==
    GenerateAnalysisResults([filename |-> "video.mp4"],
                            ProcessVehicleLabels([Labels |-> Flatten(VideoTwoPages)]),
                            [Labels |-> Flatten(VideoTwoPages),
                             VideoMetadata |-> VideoMetadataOf(VideoTwoPages)], "t1")

SampleExport == GenerateCsvReport(ProcessVehicleLabels([Labels |-> Flatten(VideoTwoPages)]))

ApiStores ==
    {[k \in Keys |->
        CASE k = "upload" -> u  [] k = "metadata" -> Absent
          [] k = "processing" -> p  [] k = "completed" -> c  [] k = "failed" -> e
          [] k = "report" -> r  [] OTHER -> x] :
        u \in {Absent, [kind |-> "video", filename |-> "video.mp4"]},
        p \in {Absent, Corrupt, UpdatedMarker(ProcessingMarker)},
        c \in {Absent, Corrupt, CompletionData(1)},
        e \in {Absent, Corrupt, ErrorResult(1, "Failed to process Rekognition results")},
        r \in {Absent, Corrupt, SampleReport},
        x \in {Absent, SampleExport}}

InitApi == store \in ApiStores /\ Quiet

NextApi == ApiRequest

SpecApi == InitApi /\ [][NextApi]_vars

\* The results API over completed jobs whose reports have timelines of every
\* length up to MaxTimeline.
MaxTimeline == 12

\* One page of n cars, one second apart.
VideoOfLength(n) ==
    << [k \in 1..n |->
          LabelEvent(1000 * k, "Car", 90000,
                     << [Confidence |-> 90000,
                         BoundingBox |-> Box(10000, 10000, 20000, 20000)] >>)] >>

ReportOf(video) ==
    GenerateAnalysisResults([filename |-> "video.mp4"],
                            ProcessVehicleLabels([Labels |-> Flatten(video)]),
                            [Labels |-> Flatten(video),
                             VideoMetadata |-> VideoMetadataOf(video)], "t1")

TimelineStores ==
    {[k \in Keys |->
        CASE k = "upload" -> [kind |-> "video", filename |-> "video.mp4"]
          [] k = "completed" -> CompletionData(1)
          [] k = "report" -> ReportOf(VideoOfLength(n))
          [] k = "export" ->
                GenerateCsvReport(ProcessVehicleLabels([Labels |-> Flatten(VideoOfLength(n))]))
          [] OTHER -> Absent] :
        n \in 0..MaxTimeline}

InitTimeline == store \in TimelineStores /\ Quiet

SpecTimeline == InitTimeline /\ [][NextApi]_vars

\* The results API asked with job identifiers of every shape: the lengths
\* around the two limits, right and wrong prefixes, and the forbidden
\* sequences at the front and at the end.
Repeat(c, n) == [k \in 1..n |-> c]

JobIdPrefixes ==
    {<<"j", "o", "b", "-">>, <<"j", "o", "b", "_">>, <<"J", "O", "B", "-">>, <<>>}

JobIdInsertions == {<<>>, <<".">>, <<".", ".">>, <<"/">>, <<"\\">>}

JobIdLengths ==
    {4, MinJobIdLength - 1, MinJobIdLength, MinJobIdLength + 1,
     MaxJobIdLength - 1, MaxJobIdLength, MaxJobIdLength + 1}

\* prefix, insertion and total length that leave room for the filling
JobIdShapes ==
    {t \in JobIdPrefixes \X JobIdInsertions \X JobIdLengths : t[3] >= Len(t[1]) + Len(t[2])}

CandidateJobIds ==
    {Str(t[1] \o Repeat("a", t[3] - Len(t[1]) - Len(t[2])) \o t[2]) : t \in JobIdShapes}
    \cup {Str(t[1] \o t[2] \o Repeat("a", t[3] - Len(t[1]) - Len(t[2]))) : t \in JobIdShapes}
    \cup {Str(<<>>), NoObject, [kind |-> "int", value |-> 123]}

\* The requests whose store calls meet no fault.
HealthyRequests == {r \in Requests : r.faults = NoFaults}

InitJobId == store \in {EmptyStore} \cup TimelineStores /\ Quiet

NextJobId == LambdaHandler(CandidateJobIds, HealthyRequests)

SpecJobId == InitJobId /\ [][NextJobId]_vars

\* The results processor over analyses of many shapes: the notification of a
\* succeeded job is waiting, the bucket holds the upload, its metadata and the
\* processing marker, and no call fails.
MaxLabels == 3

SeqsUpTo(S, n) == UNION {[1..k -> S] : k \in 0..n}

\* An instance at, and one under, the threshold; one with no confidence of its
\* own; none at all.
InstanceChoices ==
    {<< >>,
     << [Confidence |-> MIN_CONFIDENCE, BoundingBox |-> Box(10000, 10000, 20000, 20000)] >>,
     << [Confidence |-> MIN_CONFIDENCE - 1, BoundingBox |-> Box(10000, 10000, 20000, 20000)] >>,
     << [BoundingBox |-> Box(50000, 50000, 20000, 20000)] >>,
     << [BoundingBox |-> Box(50000, 50000, 20000, 20000)],
        [Confidence |-> 85004, BoundingBox |-> Box(10000, 10000, 20000, 20000)] >>,
     << [Confidence |-> 85004, BoundingBox |-> Box(10000, 10000, 20000, 20000)],
        [Confidence |-> MIN_CONFIDENCE - 1, BoundingBox |-> Box(50000, 50000, 20000, 20000)] >>}

\* Label events around the threshold, of two vehicle labels and one that is
\* no vehicle.
VariedEvents ==
    {LabelEvent(ts, name, conf, instances) :
        ts \in {0, 3000}, name \in {"Car", "Truck", "Person"},
        conf \in {MIN_CONFIDENCE - 1, MIN_CONFIDENCE}, instances \in InstanceChoices}

\* One confident instance of a label, always at the same place.
SimpleEvents ==
    {LabelEvent(ts, name, 90000,
                << [Confidence |-> 90000, BoundingBox |-> Box(10000, 10000, 20000, 20000)] >>) :
        ts \in {0, 3000}, name \in {"Car", "Pickup Truck", "Ambulance"}}

\* One page of n cars, each three seconds after the one before.
VideoOfDistinct(n) ==
    << [k \in 1..n |->
          LabelEvent(3000 * k, "Car", 90000,
                     << [Confidence |-> 90000,
                         BoundingBox |-> Box(10000, 10000, 20000, 20000)] >>)] >>

\* One page of up to MaxLabels simple events; two pages of one varied event
\* each; one page of as many cars as the timeline holds, one fewer, one more.
LabelAnalyses ==
    {<<labels>> : labels \in SeqsUpTo(SimpleEvents, MaxLabels)}
    \cup {<< <<e1>>, <<e2>> >> : e1 \in VariedEvents, e2 \in VariedEvents}
    \cup {VideoOfDistinct(n) : n \in (TimelineLimit - 1)..(TimelineLimit + 1)}

LabelsStore ==
    [k \in Keys |->
        CASE k = "upload" -> [kind |-> "video", filename |-> "video.mp4"]
          [] k = "metadata" -> [kind |-> "metadata", filename |-> "video.mp4",
                                status |-> "pending"]
          [] k = "processing" -> UpdatedMarker(ProcessingMarker)
          [] OTHER -> Absent]

InitLabels ==
    /\ store = LabelsStore
    /\ svc \in {[status |-> "SUCCEEDED", pages |-> video] : video \in LabelAnalyses}
    /\ sns = {Notification("SUCCEEDED")}
    /\ vp = VpIdle
    /\ rp = [i \in Invocations |-> RpIdle]
    /\ req = NoRequest
    /\ resolved = NoObject
    /\ resp = [statusCode |-> 0]

NextLabels ==
    \/ Receive(1, {}, {BucketName})
    \/ GetRekognitionResults(1, {FALSE})
    \/ GetJobMetadata(1, {FALSE})
    \/ Assemble(1)
    \/ SaveJson(1, {FALSE})
    \/ SaveCsv(1, {FALSE})
    \/ SaveCompleted(1, {FALSE})
    \/ CleanupProcessingMarker(1, {FALSE})

SpecLabels == InitLabels /\ [][NextLabels]_vars

(***************************************************************************)
(* count_vehicles_by_type and estimate_unique_vehicles called on lists of  *)
(* detections, one step per pass of their loops. rp[i] holds the locals of *)
(* call i; the second call is made when the first has returned.            *)
(***************************************************************************)
MaxDetections == 3

\* A detection as process_vehicle_labels makes it.
DetectionAt(timestamp, vehicle_type, left) ==
    [timestamp |-> timestamp, vehicle_type |-> vehicle_type,
     label_name |-> IF vehicle_type = "cars" THEN "Car" ELSE "Truck",
     confidence |-> 9000,
     bounding_box |-> [left |-> left, top |-> 1000, width |-> 2000, height |-> 2000]]

InTimestampOrder(s) == \A k \in 1..(Len(s) - 1) : s[k].timestamp <= s[k + 1].timestamp

\* Cars at the window's length and one millisecond over, two of them the
\* window's length apart at odd milliseconds, and at the distance threshold,
\* one step over and between two others.
EngineInputs ==
    {s \in SeqsUpTo({DetectionAt(ts, "cars", left) :
                        ts \in {0, TIME_WINDOW, TIME_WINDOW + 1, 2 * TIME_WINDOW + 1},
                        left \in {0, SPATIAL_THRESHOLD, SPATIAL_THRESHOLD + 1, 1500}},
                    MaxDetections) : InTimestampOrder(s)}

\* Cars in any order of their timestamps, as a caller other than
\* count_vehicles_by_type may give them.
AnyOrderInputs ==
    SeqsUpTo({DetectionAt(ts, "cars", left) :
                 ts \in {0, 1000, TIME_WINDOW + 1}, left \in {0, 1500}},
             MaxDetections)

\* Cars and trucks, near or far in time and in place.
CountInputs ==
    {s \in SeqsUpTo({DetectionAt(ts, type, left) :
                        ts \in {0, TIME_WINDOW + 1}, type \in {"cars", "trucks"},
                        left \in {0, SPATIAL_THRESHOLD + 1}},
                    MaxDetections) : InTimestampOrder(s)}

\* The types in the order of their first detection (the keys of type_groups).
TypeOrder(vehicle_detections) ==
    LET present == {vehicle_detections[i].vehicle_type : i \in 1..Len(vehicle_detections)}
        First(t) == CHOOSE i \in 1..Len(vehicle_detections) :
                       /\ vehicle_detections[i].vehicle_type = t
                       /\ \A j \in 1..(i - 1) : vehicle_detections[j].vehicle_type # t
    IN  [k \in 1..Cardinality(present) |->
            CHOOSE t \in present : Cardinality({u \in present : First(u) <= First(t)}) = k]

\* The locals of a call of count_vehicles_by_type (entry "count") or of
\* estimate_unique_vehicles (entry "estimate").
EngineCall(entry, list) ==
    [pc |-> entry, entry |-> entry,
     vehicle_detections |-> IF entry = "count" THEN list ELSE <<>>,
     types |-> <<>>, t |-> 1, vehicle_counts |-> <<>>,
     detections |-> IF entry = "estimate" THEN list ELSE <<>>,
     next |-> 1, unique_vehicles |-> <<>>, result |-> NoObject]

\* count_vehicles_by_type: the detections grouped by type
CountVehiclesStart(i) ==
    /\ rp[i].pc = "count"
    /\ LET types == TypeOrder(rp[i].vehicle_detections)
       IN  rp' = [rp EXCEPT ![i] =
                    IF types = <<>> THEN [@ EXCEPT !.pc = "total"]
                    ELSE [@ EXCEPT !.pc = "estimate", !.types = types, !.t = 1,
                                   !.detections = TypeGroup(rp[i].vehicle_detections, types[1])]]
    /\ UNCHANGED <<store, svc, sns, vp, req, resolved, resp>>

\* The tracked vehicles kept at module level: a call starts from what the
\* call before it left.
EstimateStartKeeping(i) ==
    /\ rp[i].pc = "estimate"
    /\ rp' = [rp EXCEPT ![i] =
                IF rp[i].detections = <<>>
                THEN [@ EXCEPT !.pc = "returned", !.result = 0]
                ELSE [@ EXCEPT !.pc = "loop", !.next = 1,
                               !.unique_vehicles =
                                  rp[CHOOSE j \in Invocations : j # i].unique_vehicles]]
    /\ UNCHANGED <<store, svc, sns, vp, req, resolved, resp>>

\* A lone detection taken as noise: nothing is counted under two detections.
EstimateStartPairsOnly(i) ==
    /\ rp[i].pc = "estimate"
    /\ rp' = [rp EXCEPT ![i] =
                IF Len(rp[i].detections) <= 1
                THEN [@ EXCEPT !.pc = "returned", !.result = 0]
                ELSE [@ EXCEPT !.pc = "loop", !.next = 1, !.unique_vehicles = <<>>]]
    /\ UNCHANGED <<store, svc, sns, vp, req, resolved, resp>>

\* estimate_unique_vehicles: 0 for no detections, else the empty list of
\* tracked vehicles
EstimateStart(i) ==
    /\ rp[i].pc = "estimate"
    /\ rp' = [rp EXCEPT ![i] =
                IF rp[i].detections = <<>>
                THEN [@ EXCEPT !.pc = "returned", !.result = 0]
                ELSE [@ EXCEPT !.pc = "loop", !.next = 1, !.unique_vehicles = <<>>]]
    /\ UNCHANGED <<store, svc, sns, vp, req, resolved, resp>>

\* One pass of the loop over the detections.
EstimateLoop(i) ==
    /\ rp[i].pc = "loop"
    /\ rp[i].next <= Len(rp[i].detections)
    /\ rp' = [rp EXCEPT ![i] =
                [@ EXCEPT !.unique_vehicles = Track(rp[i].detections[rp[i].next], @),
                          !.next = @ + 1]]
    /\ UNCHANGED <<store, svc, sns, vp, req, resolved, resp>>

\* return len(unique_vehicles), to the caller or into vehicle_counts, where
\* the next type's group is taken up.
EstimateReturn(i) ==
    /\ rp[i].pc = "loop"
    /\ rp[i].next > Len(rp[i].detections)
    /\ LET unique_count == Len(rp[i].unique_vehicles)
           types == rp[i].types
           t == rp[i].t
           vehicle_counts ==
              [k \in DOMAIN rp[i].vehicle_counts \cup {types[t]} |->
                  IF k = types[t] THEN unique_count ELSE rp[i].vehicle_counts[k]]
       IN  rp' = [rp EXCEPT ![i] =
                    IF rp[i].entry = "estimate"
                    THEN [@ EXCEPT !.pc = "returned", !.result = unique_count]
                    ELSE IF t < Len(types)
                    THEN [@ EXCEPT !.pc = "estimate", !.vehicle_counts = vehicle_counts,
                                   !.t = t + 1,
                                   !.detections =
                                      TypeGroup(rp[i].vehicle_detections, types[t + 1])]
                    ELSE [@ EXCEPT !.pc = "total", !.vehicle_counts = vehicle_counts]]
    /\ UNCHANGED <<store, svc, sns, vp, req, resolved, resp>>

\* The total added, and dict(vehicle_counts) returned.
CountVehiclesReturn(i) ==
    /\ rp[i].pc = "total"
    /\ LET vehicle_counts == rp[i].vehicle_counts
           types == DOMAIN vehicle_counts
       IN  rp' = [rp EXCEPT ![i] =
                    [@ EXCEPT !.pc = "returned",
                              !.result =
                                 [k \in types \cup {"total_vehicles"} |->
                                     IF k = "total_vehicles" THEN SumOver(vehicle_counts, types)
                                     ELSE vehicle_counts[k]]]]
    /\ UNCHANGED <<store, svc, sns, vp, req, resolved, resp>>

\* Both calls are given the same list.
InitEngine ==
    /\ store = EmptyStore
    /\ svc = [status |-> "none", pages |-> <<>>]
    /\ sns = {}
    /\ vp = VpIdle
    /\ \/ \E list \in EngineInputs \cup AnyOrderInputs :
             rp = [i \in Invocations |-> EngineCall("estimate", list)]
       \/ \E list \in CountInputs : rp = [i \in Invocations |-> EngineCall("count", list)]
    /\ req = NoRequest
    /\ resolved = NoObject
    /\ resp = [statusCode |-> 0]

\* The calls before call i have returned.
InTurn(i) == \A j \in Invocations : j < i => rp[j].pc = "returned"

NextEngine ==
    \E i \in Invocations :
       \/ InTurn(i) /\ CountVehiclesStart(i)
       \/ InTurn(i) /\ EstimateStart(i)
       \/ InTurn(i) /\ EstimateLoop(i)
       \/ InTurn(i) /\ EstimateReturn(i)
       \/ InTurn(i) /\ CountVehiclesReturn(i)

SpecEngine == InitEngine /\ [][NextEngine]_vars

(***************************************************************************)
(* The report assembled from label events in any order: by the processor,  *)
(* which classifies them first, or by a call of generate_analysis_results  *)
(* on the detections in the order of the label events.                     *)
(***************************************************************************)
AnalysisOf(labels) ==
    [Labels |-> labels, VideoMetadata |-> VideoMetadataOf(<<labels>>), JobStatus |-> "SUCCEEDED"]

\* generate_analysis_results called on the detections the invocation holds
GenerateReport(i) ==
    /\ rp[i].pc = "report"
    /\ rp' = [rp EXCEPT ![i] =
                [@ EXCEPT !.pc = "returned",
                          !.analysis_results =
                             GenerateAnalysisResults(rp[i].job_metadata, rp[i].vehicle_detections,
                                                     rp[i].rekognition_results, Clock(i))]]
    /\ UNCHANGED <<store, svc, sns, vp, req, resolved, resp>>

InitAssembler ==
    /\ store = LabelsStore
    /\ svc = [status |-> "SUCCEEDED", pages |-> <<>>]
    /\ sns = {Notification("SUCCEEDED")}
    /\ vp = VpIdle
    /\ \E labels \in SeqsUpTo(SimpleEvents, MaxLabels) :
          \/ rp = [i \in Invocations |->
                     IF i = 1
                     THEN [RpIdle EXCEPT !.pc = "assemble",
                                         !.rekognition_results = AnalysisOf(labels),
                                         !.job_metadata = store["metadata"]]
                     ELSE RpIdle]
          \/ rp = [i \in Invocations |->
                     IF i = 1
                     THEN [RpIdle EXCEPT !.pc = "report",
                                         !.rekognition_results = AnalysisOf(labels),
                                         !.job_metadata = store["metadata"],
                                         !.vehicle_detections = AllDetections(labels)]
                     ELSE RpIdle]
    /\ req = NoRequest
    /\ resolved = NoObject
    /\ resp = [statusCode |-> 0]

NextAssembler ==
    \/ Assemble(1)
    \/ GenerateReport(1)

SpecAssembler == InitAssembler /\ [][NextAssembler]_vars

\* The pipeline over a store whose calls all succeed; the detection service
\* may still refuse a job or a page, and a notification may come twice.
NextNoStoreFaults ==
    \/ UploadHandler({FALSE})
    \/ ClientUpload
    \/ VpValidate
    \/ GetVideoMetadata({FALSE})
    \/ CreateProcessingMarker({FALSE})
    \/ StartRekognitionAnalysis(BOOLEAN)
    \/ UpdateProcessingMarkerGet({FALSE})
    \/ UpdateProcessingMarkerPut({FALSE})
    \/ CreateErrorMarker({FALSE})
    \/ JobEnds
    \/ \E i \in Invocations :
         \/ Receive(i, OtherNotifications, BucketNames)
         \/ GetRekognitionResults(i, BOOLEAN)
         \/ GetJobMetadata(i, {FALSE})
         \/ Assemble(i)
         \/ SaveJson(i, {FALSE})
         \/ SaveCsv(i, {FALSE})
         \/ SaveCompleted(i, {FALSE})
         \/ CleanupProcessingMarker(i, {FALSE})
         \/ CreateErrorResult(i, {FALSE})

SpecNoStoreFaults == Init /\ [][NextNoStoreFaults]_vars

\* The pipeline with every call failing or not, two deliveries of the
\* notification, and either invocation stopping between two puts.
NextInterrupted ==
    \/ UploadHandler(BOOLEAN)
    \/ ClientUpload
    \/ VideoProcessor(BOOLEAN)
    \/ JobEnds
    \/ \E i \in Invocations :
         \/ Receive(i, {}, {BucketName})
         \/ ResultsProcessor(i, BOOLEAN)
         \/ Crash(i)

SpecInterrupted == Init /\ [][NextInterrupted]_vars

(***************************************************************************)
(* results-api: get_job_status with one store call per step, beside the    *)
(* pipeline. req.pc is the call it makes next; req.at_start keeps the      *)
(* store as it was when the resolution began. No call fails.               *)
(***************************************************************************)
ResolverAt(pc) == Get(req, "pc", None) = pc

GetJobStatusBegin ==
    /\ req = NoRequest
    /\ req' = [route |-> "status", format |-> None, details |-> TRUE, faults |-> NoFaults,
               calls |-> <<>>, job_id |-> JobId, pc |-> "head_completed", at_start |-> store]
    /\ UNCHANGED <<store, svc, sns, vp, rp, resolved, resp>>

\* s3_object_exists on a marker
ProbeMarker(at, key, found, missing) ==
    /\ ResolverAt(at)
    /\ req' = [req EXCEPT !.pc = IF S3ObjectExists(store, key, NoFaults) = "true"
                                 THEN found ELSE missing,
                          !.calls = Append(@, Probe(store, key, NoFaults))]
    /\ UNCHANGED <<store, svc, sns, vp, rp, resolved, resp>>

\* The get of the marker found, inside its own try.
ReadMarker(at, key, status) ==
    /\ ResolverAt(at)
    /\ resolved' = status
    /\ req' = [req EXCEPT !.pc = "returned", !.calls = Append(@, Read(store, key, NoFaults))]
    /\ UNCHANGED <<store, svc, sns, vp, rp, resp>>

\* list_objects_v2 under uploads/{jobId}/
ProbeUploads ==
    /\ ResolverAt("list_uploads")
    /\ resolved' = IF ListUploads(store, NoFaults) = "contents"
                   THEN [status |-> "pending", message |-> "Waiting to start processing"]
                   ELSE [status |-> "not_found"]
    /\ req' = [req EXCEPT !.pc = "returned",
                          !.calls = Append(@, Call("list", "upload", TRUE))]
    /\ UNCHANGED <<store, svc, sns, vp, rp, resp>>

GetJobStatusStep ==
    \/ GetJobStatusBegin
    \/ ProbeMarker("head_completed", "completed", "get_completed", "head_failed")
    \/ ReadMarker("get_completed", "completed", CompletedStatus(store, NoFaults))
    \/ ProbeMarker("head_failed", "failed", "get_failed", "head_processing")
    \/ ReadMarker("get_failed", "failed", FailedStatus(store, NoFaults))
    \/ ProbeMarker("head_processing", "processing", "get_processing", "list_uploads")
    \/ ReadMarker("get_processing", "processing", ProcessingStatus(store, NoFaults))
    \/ ProbeUploads

\* One resolution at any moment of the intended flow.
NextResolving ==
    \/ UploadHandler({FALSE})
    \/ ClientUpload
    \/ VideoProcessor({FALSE})
    \/ JobEnds
    \/ Receive(1, {}, {BucketName})
    \/ ResultsProcessor(1, {FALSE})
    \/ GetJobStatusStep

SpecResolving == Init /\ [][NextResolving]_vars

(***************************************************************************)
(* The processors triggered for upload keys of every shape. A key is the   *)
(* sequence of its characters; the first folder and the file name, which   *)
(* the code compares whole, are one element each. The store's entries are  *)
(* the objects of the job identifier the video processor extracted, and    *)
(* the notification's tag is that identifier (JobTag=job_id).              *)
(***************************************************************************)
\* str.split(sep)
RECURSIVE Split(_, _)
Split(chars, sep) ==
    IF \A k \in 1..Len(chars) : chars[k] # sep
    THEN <<chars>>
    ELSE LET k == CHOOSE n \in 1..Len(chars) :
                     chars[n] = sep /\ \A m \in 1..(n - 1) : chars[m] # sep
         IN  <<SubSeq(chars, 1, k - 1)>> \o Split(SubSeq(chars, k + 1, Len(chars)), sep)

ExtractJobIdFromKey(s3_key) ==
    LET parts == Split(s3_key, "/")
    IN  IF Len(parts) >= 3 /\ parts[1] = <<"uploads">> THEN Str(parts[2]) ELSE NoObject

Folders == {"uploads", "results"}

EventJobIds == {job_id \in CandidateJobIds : job_id.kind = "str"}

EventKeys ==
    {<<folder, "/">> \o job_id.chars \o <<"/", filename>> :
        folder \in Folders, job_id \in EventJobIds, filename \in Filenames}

\* The last element of a key is its file name.
KeyFilename(s3_key) == s3_key[Len(s3_key)]

\* The record of the event is valid; the job identifier is taken from its key.
VpRecord ==
    /\ vp.pc = "record"
    /\ LET job_id == ExtractJobIdFromKey(vp.s3_key)
       IN  vp' = IF Falsy(job_id)
                 THEN [vp EXCEPT !.pc = "done", !.statusCode = 200]
                 ELSE [vp EXCEPT !.pc = "event", !.job_id = job_id]
    /\ UNCHANGED <<store, svc, sns, rp, req, resolved, resp>>

InitEvents ==
    /\ \E s3_key \in EventKeys :
         /\ vp = [pc |-> "record", error |-> None, marker_data |-> NoObject, calls |-> <<>>,
                  statusCode |-> 0, s3_key |-> s3_key, job_id |-> NoObject]
         /\ store = Put(EmptyStore, "upload",
                        [kind |-> "video", filename |-> KeyFilename(s3_key)])
    /\ svc = [status |-> "none", pages |-> <<>>]
    /\ sns = {}
    /\ rp = [i \in Invocations |-> RpIdle]
    /\ req = NoRequest
    /\ resolved = NoObject
    /\ resp = [statusCode |-> 0]

NextEvents ==
    \/ VpRecord
    \/ VideoProcessor({FALSE})
    \/ JobEnds
    \/ Receive(1, {}, {BucketName})
    \/ ResultsProcessor(1, {FALSE})

SpecEvents == InitEvents /\ [][NextEvents]_vars

(***************************************************************************)
(* The results processor against label results of one to MaxPages pages.   *)
(* The handler is one sequential program: its loop takes its next call     *)
(* whenever it can.                                                        *)
(***************************************************************************)
MaxPages == 3

\* The pages a result is made of, one of them without labels.
PageKinds == {VideoTwoPages[1], VideoTwoPages[2], VideoOnePage[1], <<>>}

PagedVideos == UNION {[1..n -> PageKinds] : n \in 1..MaxPages}

InitPaging ==
    /\ store = [EmptyStore EXCEPT !["upload"] = [kind |-> "video", filename |-> "video.mp4"],
                                  !["processing"] = ProcessingMarker]
    /\ \E video \in PagedVideos : svc = [status |-> "SUCCEEDED", pages |-> video]
    /\ sns = {Notification("SUCCEEDED")}
    /\ vp = [VpIdle EXCEPT !.pc = "done", !.statusCode = 200]
    /\ rp = [i \in Invocations |-> RpIdle]
    /\ req = NoRequest
    /\ resolved = NoObject
    /\ resp = [statusCode |-> 0]

NextPaging ==
    \/ Receive(1, {}, {BucketName})
    \/ ResultsProcessor(1, BOOLEAN)

SpecPaging ==
    InitPaging /\ [][NextPaging]_vars /\ WF_vars(GetRekognitionResults(1, BOOLEAN))

(***************************************************************************)
(* The results processor over detections with confidences at and beside    *)
(* the limits of the confidence bands.                                     *)
(***************************************************************************)
MaxBanded == 2

\* In thousandths: under and at the threshold, the two sides of 80 and 90
\* before and after the rounding to two decimals, and 100.
BandConfidences == {69999, 70000, 70004, 79994, 79995, 80000, 89994, 89996, 90000, 100000}

BandEvents ==
    {LabelEvent(0, "Car", 90000,
                << [Confidence |-> conf, BoundingBox |-> Box(10000, 10000, 20000, 20000)] >>) :
        conf \in BandConfidences}
    \cup {LabelEvent(0, "Bus", conf, << [BoundingBox |-> Box(10000, 10000, 20000, 20000)] >>) :
            conf \in BandConfidences}

BandAnalyses == {<<labels>> : labels \in SeqsUpTo(BandEvents, MaxBanded)}

InitBands ==
    /\ store = LabelsStore
    /\ svc \in {[status |-> "SUCCEEDED", pages |-> video] : video \in BandAnalyses}
    /\ sns = {Notification("SUCCEEDED")}
    /\ vp = VpIdle
    /\ rp = [i \in Invocations |-> RpIdle]
    /\ req = NoRequest
    /\ resolved = NoObject
    /\ resp = [statusCode |-> 0]

SpecBands == InitBands /\ [][NextLabels]_vars

(***************************************************************************)
(* upload-handler: generate_job_id, and the results API asked with the     *)
(* identifiers it makes.                                                   *)
(***************************************************************************)
DecimalDigits == <<"0", "1", "2", "3", "4", "5", "6", "7", "8", "9">>

\* n in decimal, zero-padded to width digits (%Y, %m, %d, %H, %M, %S)
RECURSIVE Padded(_, _)
Padded(n, width) ==
    IF width = 0 THEN <<>> ELSE Padded(n \div 10, width - 1) \o <<DecimalDigits[(n % 10) + 1]>>

\* strftime('%Y%m%d-%H%M%S')
Strftime(now) ==
    Padded(now.year, 4) \o Padded(now.month, 2) \o Padded(now.day, 2) \o <<"-">>
    \o Padded(now.hour, 2) \o Padded(now.minute, 2) \o Padded(now.second, 2)

\* The identifier with the date written year/month/day.
GenerateJobIdSlashed(now, uuid) ==
    Str(<<"j", "o", "b", "-">>
        \o Padded(now.year, 4) \o <<"/">> \o Padded(now.month, 2) \o <<"/">>
        \o Padded(now.day, 2) \o <<"-">> \o SubSeq(uuid, 1, 8))

GenerateJobId(now, uuid) ==
    Str(<<"j", "o", "b", "-">> \o Strftime(now) \o <<"-">> \o SubSeq(uuid, 1, 8))

\* datetime.utcnow(): the ends of every field's range
Instants ==
    [year : {2024, 9999}, month : {1, 12}, day : {1, 31},
     hour : {0, 23}, minute : {0, 59}, second : {0, 59}]

\* str(uuid.uuid4()): 36 characters, hexadecimal digits in groups of 8, 4, 4,
\* 4 and 12 joined by hyphens, the version digit 4 leading the third group
Uuid4(c, d) ==
    [k \in 1..36 |-> IF k \in {9, 14, 19, 24} THEN "-"
                     ELSE IF k = 15 THEN "4"
                     ELSE IF k % 2 = 0 THEN c ELSE d]

Uuids == {Uuid4("0", "0"), Uuid4("f", "9"), Uuid4("a", "f")}

GeneratedJobIds == {GenerateJobId(now, uuid) : now \in Instants, uuid \in Uuids}

NextGenerated == LambdaHandler(GeneratedJobIds, HealthyRequests)

SpecGenerated == InitJobId /\ [][NextGenerated]_vars

(***************************************************************************)
(* The resolver and the views (SpecApi).                                   *)
(***************************************************************************)
\* The request has been answered and it reached get_job_status.
Resolved == req # NoRequest /\ Resolves(req)

\* No existence probe and no listing of the request raised.
ProbesHealthy ==
    /\ ~req.faults.client
    /\ req.faults.head \cap MarkerKeys = {}
    /\ ~req.faults.list

\* The state of the first object present, in the order completed, failed,
\* processing, upload.
Precedence(st) ==
    IF st["completed"] # Absent THEN "completed"
    ELSE IF st["failed"] # Absent THEN "failed"
    ELSE IF st["processing"] # Absent THEN "processing"
    ELSE IF st["upload"] # Absent THEN "pending"
    ELSE "not_found"

\* C1: for every combination of the completed, failed and processing markers
\* and an upload object, get_job_status returns the state of the first one
\* present in the order completed, failed, processing, upload (pending), and
\* not_found when none is present.
C1_Precedence == (Resolved /\ ProbesHealthy) => resolved.status = Precedence(store)

\* A completed marker together with a stale processing marker resolved to completed.
C1_Witness ==
    /\ Resolved /\ ProbesHealthy
    /\ store["completed"] # Absent /\ store["processing"] # Absent
    /\ resolved.status = "completed"

\* The marker's probe was made and found it.
Found(key) == store[key] # Absent /\ key \notin req.faults.head

\* A probe the resolution made raised an error other than "object absent".
ProbeFaulted ==
    \/ req.faults.client
    \/ "completed" \in req.faults.head
    \/ ~Found("completed") /\ "failed" \in req.faults.head
    \/ ~Found("completed") /\ ~Found("failed") /\ "processing" \in req.faults.head
    \/ ~Found("completed") /\ ~Found("failed") /\ ~Found("processing") /\ req.faults.list

\* C2: if a store probe made while resolving a job faults, get_job_status
\* returns unknown, never not_found or pending.
C2_FaultYieldsUnknown == (Resolved /\ ProbeFaulted) => resolved.status = "unknown"

\* C3: whenever the resolver returns unknown, each of the three views answers
\* with a server error (5xx).
C3_UnknownIsServerError ==
    (Resolved /\ resolved.status = "unknown") => resp.statusCode >= 500

\* The marker's state with its auxiliary fields defaulted.
Defaulted(key) ==
    CASE key = "completed" -> [status |-> "completed", timestamp |-> None]
      [] key = "failed" -> [status |-> "failed", error |-> "Processing failed"]
      [] key = "processing" -> [status |-> "processing", stage |-> "analysis"]

Unreadable(key) == key \in req.faults.get \/ store[key] = Corrupt

HigherMarkers(key) ==
    CASE key = "completed" -> {}
      [] key = "failed" -> {"completed"}
      [] key = "processing" -> {"completed", "failed"}

\* C4: for each marker kind, if the marker is the first one the probes find and
\* its body cannot be read or decoded, get_job_status returns that marker's
\* state with the auxiliary fields defaulted: no lower state, not unknown.
C4_UnreadableMarker ==
    \A key \in MarkerKeys :
        (/\ Resolved /\ ~req.faults.client
         /\ Found(key) /\ \A h \in HigherMarkers(key) : ~Found(h)
         /\ Unreadable(key))
        => resolved = Defaulted(key)

\* A failed marker with an undecodable body, under a processing marker and an upload.
C4_Witness ==
    /\ Resolved /\ ~req.faults.client
    /\ store["failed"] = Corrupt /\ Found("failed") /\ ~Found("completed")
    /\ store["processing"] # Absent /\ store["upload"] # Absent
    /\ resolved = Defaulted("failed")

(***************************************************************************)
(* The results processor (Spec).                                           *)
(***************************************************************************)
\* The index set of a sequence.
Indices(s) == 1..Len(s)

\* The writes of the persistence sequence and the marker cleanup.
IsPersistence(c) ==
    \/ c.op = "put" /\ c.key \in {"report", "export", "completed"}
    \/ c.op = "delete" /\ c.key = "processing"

SaveSequence ==
    <<Call("put", "report", TRUE), Call("put", "export", TRUE),
      Call("put", "completed", TRUE), Call("delete", "processing", TRUE)>>

Persistence(i) == SelectSeq(rp[i].calls, IsPersistence)

\* The invocation made the call, with that outcome.
Did(i, op, key, ok) == \E k \in Indices(rp[i].calls) : rp[i].calls[k] = Call(op, key, ok)

Tried(i, op, key) == Did(i, op, key, TRUE) \/ Did(i, op, key, FALSE)

\* What comes before the first write: every page, then the metadata read.
FetchCalls(i) ==
    [k \in 1..Len(svc.pages) + 1 |->
        IF k <= Len(svc.pages) THEN Call("get_labels", "rekognition", TRUE)
        ELSE Call("get", "metadata", Did(i, "get", "metadata", TRUE))]

ErrorPut(i) == SelectSeq(rp[i].calls, LAMBDA c : c.op = "put" /\ c.key = "failed")

\* C5: in one invocation for a SUCCEEDED notification every label page is
\* fetched and the whole report is assembled before the first write of the
\* persistence sequence; the writes are put report, put export, put completed
\* marker and then the delete of the processing marker, in this order, each
\* only after the one before it succeeded, with no other call between them.
C5_WriteOrder ==
    \A i \in Invocations :
        LET w == Persistence(i)
        IN  w # <<>> =>
              /\ rp[i].msg.Status = "SUCCEEDED"
              /\ Len(w) <= Len(SaveSequence)
              /\ \A k \in Indices(w) :
                    /\ w[k].op = SaveSequence[k].op /\ w[k].key = SaveSequence[k].key
                    /\ k < Len(w) => w[k].ok
              /\ rp[i].calls = FetchCalls(i) \o w \o ErrorPut(i)
              /\ rp[i].all_labels = Flatten(svc.pages)
              /\ rp[i].vehicle_detections = ProcessVehicleLabels([Labels |-> Flatten(svc.pages)])
              /\ rp[i].analysis_results # NoObject

\* An invocation ran the whole sequence over a video of two pages.
C5_Witness ==
    /\ rp[1].pc = "done" /\ Persistence(1) = SaveSequence
    /\ Len(svc.pages) = 2
    /\ store["processing"] = Absent /\ store["completed"] = CompletionData(1)

SaveFailed(i) ==
    \E key \in {"report", "export", "completed"} : Did(i, "put", key, FALSE)

Handled(i) ==
    /\ rp[i].pc = "done"
    /\ rp[i].msg.Status \in {"SUCCEEDED", "FAILED"}
    /\ rp[i].msg.JobId # None /\ rp[i].msg.JobTag # None
    /\ rp[i].bucket_name # None

MarkerWritesSucceed(i) ==
    ~Did(i, "put", "completed", FALSE) /\ ~Did(i, "put", "failed", FALSE)

EveryStepSucceeded(i) ==
    /\ ~Did(i, "get_labels", "rekognition", FALSE)
    /\ ~SaveFailed(i)

\* C7: after the results processor has handled a SUCCEEDED or FAILED
\* notification of the job (job id and tag present, bucket configured, marker
\* writes succeeding), the job has a completed marker when the status was
\* SUCCEEDED and every step succeeded, and a failed marker otherwise; a
\* resolution whose probes work then returns completed or failed.
C7_EndsWithMarker ==
    \A i \in Invocations :
        (Handled(i) /\ MarkerWritesSucceed(i)) =>
            /\ IF rp[i].msg.Status = "SUCCEEDED" /\ EveryStepSucceeded(i)
               THEN store["completed"] # Absent
               ELSE store["failed"] # Absent
            /\ GetJobStatus(store, NoFaults).status \in {"completed", "failed"}

\* A FAILED notification handled over a processing marker that stays.
C7_Witness ==
    /\ Handled(1) /\ rp[1].msg.Status = "FAILED"
    /\ store["failed"] = ErrorResult(1, "Video analysis failed")
    /\ store["processing"] # Absent
    /\ GetJobStatus(store, NoFaults).status = "failed"

C9_AtMostOneMarker == Cardinality({k \in MarkerKeys : store[k] # Absent}) <= 1

(***************************************************************************)
(* Two deliveries of the SUCCEEDED notification (Spec).                     *)
(***************************************************************************)
RanFullSequence(i) ==
    /\ rp[i].pc = "done" /\ rp[i].msg.Status = "SUCCEEDED"
    /\ \A key \in {"report", "export", "completed"} : Did(i, "put", key, TRUE)

SingleRunDetections == ProcessVehicleLabels([Labels |-> Flatten(svc.pages)])

\* After both invocations ran the full sequence the store holds one of the two
\* reports, exports and completed markers, the resolver returns completed, and
\* the counts and rows are those of a single run.
BothRanThenConsistent ==
    (\A i \in Invocations : RanFullSequence(i)) =>
        /\ store["report"] \in {rp[i].analysis_results : i \in Invocations}
        /\ store["export"] \in {GenerateCsvReport(rp[i].vehicle_detections) : i \in Invocations}
        /\ store["completed"] \in {CompletionData(i) : i \in Invocations}
        /\ GetJobStatus(store, NoFaults).status = "completed"
        /\ store["report"].vehicle_counts = CountVehiclesByType(SingleRunDetections)
        /\ store["report"].total_detections = Len(SingleRunDetections)
        /\ store["export"].rows = GenerateCsvReport(SingleRunDetections).rows

WrittenBody(i, key) ==
    CASE key = "report" -> rp[i].analysis_results
      [] key = "export" -> GenerateCsvReport(rp[i].vehicle_detections)
      [] key = "completed" -> CompletionData(i)

\* A put of the sequence that succeeds leaves what it wrote, whatever was there.
LaterWriteWins ==
    \A i \in Invocations, key \in {"report", "export", "completed"} :
        rp'[i].calls = Append(rp[i].calls, Call("put", key, TRUE))
            => store'[key] = WrittenBody(i, key)

\* C10: when two invocations handle the same SUCCEEDED notification
\* concurrently, both may run the full write sequence under every
\* interleaving; each put overwrites (later write wins), and after both have
\* finished the store holds one report, one export and one completed marker,
\* each written by one of the two, the resolver returns completed, and the
\* report counts and export rows equal those of a single run.
C10_DuplicateDelivery == []BothRanThenConsistent /\ [][LaterWriteWins]_vars

\* Both ran the full sequence; the report left is the second's, the marker the first's.
C10_Witness ==
    /\ \A i \in Invocations : RanFullSequence(i)
    /\ store["report"] = rp[2].analysis_results
    /\ store["completed"] = CompletionData(1)
    /\ rp[1].analysis_results # rp[2].analysis_results

(***************************************************************************)
(* A writer that stops before the completed marker (SpecCrash).            *)
(***************************************************************************)
Crashed(i) == rp[i].pc = "crashed"

\* C11: if the writer stops after writing the report, and possibly the export,
\* but before writing the completed marker, the resolver does not return
\* completed for the job (it returns the state of the highest-precedence
\* marker still present), and the full-results view does not return the
\* report body.
C11_CrashBeforeCompleted ==
    (Crashed(1) /\ Resolved) =>
        /\ store["report"] # Absent /\ store["completed"] = Absent
        /\ resolved.status # "completed"
        /\ ProbesHealthy => resolved.status = Precedence(store)
        /\ req.route = "results" =>
              /\ "results" \notin DOMAIN resp.body
              /\ resp.statusCode = 200 => resp.body.status # "completed"

\* Report and export are there, the processing marker too: the view says processing.
C11_Witness ==
    /\ Crashed(1) /\ Resolved /\ ProbesHealthy /\ req.route = "results"
    /\ store["report"] # Absent /\ store["export"] # Absent
    /\ store["processing"] # Absent
    /\ resolved.status = "processing"
    /\ resp.statusCode = 200 /\ resp.body.status = "processing"

(***************************************************************************)
(* Best-effort failed markers and ignored notifications (Spec).            *)
(***************************************************************************)
Markers(st) == {k \in MarkerKeys : st[k] # Absent}

\* The step in which an invocation's put of errors/{jobId}/error.json failed.
FailedMarkerPutFails(before, now) ==
    now.calls = Append(before.calls, Call("put", "failed", FALSE))

BestEffortStep ==
    /\ \A i \in Invocations :
          FailedMarkerPutFails(rp[i], rp'[i]) =>
              /\ rp'[i].pc = "done" /\ rp'[i].statusCode = 200
              /\ Markers(store') = Markers(store)
              /\ \A k \in MarkerKeys : store'[k] = store[k]
    /\ FailedMarkerPutFails(vp, vp') =>
              /\ vp'.pc = "done" /\ vp'.statusCode = 200
              /\ Markers(store') = Markers(store)
              /\ \A k \in MarkerKeys : store'[k] = store[k]

\* C12: writing a failed marker is best-effort: when the put of
\* errors/{jobId}/error.json fails, no exception propagates out of the
\* invocation (it returns success for the batch), and the set of markers of
\* the job is exactly what it was before the attempt.
C12_BestEffortFailedMarker == [][BestEffortStep]_vars

\* A FAILED notification whose failed marker could not be written.
C12_Witness ==
    /\ rp[1].pc = "done" /\ rp[1].statusCode = 200
    /\ rp[1].msg.Status = "FAILED"
    /\ rp[1].calls = <<Call("put", "failed", FALSE)>>
    /\ store["failed"] = Absent /\ store["processing"] # Absent

\* The notification's status is neither SUCCEEDED nor FAILED.
OtherStatus(m) == m.Status \notin {"SUCCEEDED", "FAILED"}

\* The invocation took a notification of such a status.
TookOtherStatus(i) == rp[i].pc # "idle" /\ OtherStatus(rp[i].msg)

OtherStatusIgnored ==
    \A i \in Invocations :
        TookOtherStatus(i) =>
            rp[i].pc = "done" /\ rp[i].statusCode = 200 /\ rp[i].calls = <<>>

OtherStatusStep ==
    \A i \in Invocations :
        (rp[i].pc = "idle" /\ rp'[i].pc # "idle" /\ OtherStatus(rp'[i].msg)) =>
            \A k \in Keys : store'[k] = store[k]

\* C13: for a notification whose status is neither SUCCEEDED nor FAILED the
\* results processor writes and deletes no store object of the job (report,
\* export, completed, failed and processing markers are unchanged) and the
\* invocation returns success.
C13_OtherStatusIgnored == []OtherStatusIgnored /\ [][OtherStatusStep]_vars

\* An IN_PROGRESS notification taken while the processing marker is there.
C13_Witness ==
    /\ TookOtherStatus(1) /\ rp[1].msg = ProgressNotification
    /\ rp[1].bucket_name = BucketName
    /\ rp[1].pc = "done" /\ rp[1].statusCode = 200
    /\ store["processing"] # Absent /\ store["failed"] = Absent

(***************************************************************************)
(* The views over a completed job (SpecApi).                               *)
(***************************************************************************)
ResolvedCompleted == Resolved /\ resolved.status = "completed"

\* The report body is missing, or its fetch or its decoding fails.
ReportUnfetchable == store["report"] \in {Absent, Corrupt} \/ "report" \in req.faults.get

\* C14: in the full-results view, when the resolved state is completed but the
\* report body results/{jobId}/analysis.json cannot be fetched, the response
\* is a server error (500 retrieval error), never a not-found (404) and never
\* a success.
C14_MissingReportIsServerError ==
    (req.route = "results" /\ ResolvedCompleted /\ ReportUnfetchable) =>
        /\ resp.statusCode = 500
        /\ resp.body = [error |-> "Results not available"]

\* A completed marker without a report.
C14_Witness ==
    /\ req.route = "results" /\ ResolvedCompleted
    /\ store["completed"] = CompletionData(1) /\ store["report"] = Absent
    /\ req.faults = NoFaults
    /\ resp.statusCode = 500

\* C15: in the download view, when the completed marker is present but the
\* artifact object of the requested format is missing, the outcome is a
\* server error; it is never a not-found outcome.
C15_MissingArtifactIsServerError ==
    (/\ req.route = "download" /\ ResolvedCompleted
     /\ store["completed"] # Absent
     /\ store[ArtifactKey(req.format)] = Absent)
    => resp.statusCode >= 500 /\ resp.statusCode # 404

\* C15, as the code has it: in the download view, when the completed marker
\* is present but the artifact object of the requested format is missing, the
\* response is the not-found outcome 404 "Results file not found".
C15_MissingArtifactIsNotFound ==
    (/\ req.route = "download" /\ ResolvedCompleted
     /\ store["completed"] # Absent
     /\ store[ArtifactKey(req.format)] = Absent)
    => resp = CreateErrorResponse(404, "Results file not found")

\* A completed marker without the report, asked for as json.
C15_Witness ==
    /\ req.route = "download" /\ req.format = "json" /\ ResolvedCompleted
    /\ store["completed"] = CompletionData(1) /\ store["report"] = Absent
    /\ req.faults = NoFaults
    /\ resp.statusCode = 404

\* The response carries a retrieval handle.
HandleReturned == resp.statusCode = 200 /\ "downloadUrl" \in DOMAIN resp.body

\* C16: the download view returns a retrieval handle only if the format is
\* json or csv, the resolved state is completed and the artifact object of
\* the format exists; for every other resolved state (pending, processing,
\* failed, not_found, unknown) it answers not-available and never a handle.
C16_HandleOnlyWhenCompleted ==
    req.route = "download" =>
        /\ HandleReturned =>
              /\ req.format \in DownloadFormats
              /\ resolved.status = "completed"
              /\ store[ArtifactKey(req.format)] # Absent
              /\ resp.body.downloadUrl = ArtifactKey(req.format)
        /\ (Resolved /\ resolved.status # "completed") =>
              /\ ~HandleReturned
              /\ resp = CreateErrorResponse(404, "Results not available for download")

\* The export of a completed job is handed out.
C16_Witness ==
    /\ req.route = "download" /\ req.format = "csv" /\ ResolvedCompleted
    /\ store["export"] = SampleExport
    /\ HandleReturned /\ resp.body.downloadUrl = "export"

\* The request made a call on the key.
Touched(key) == \E k \in 1..Len(req.calls) : req.calls[k].key = key

\* C17: the status-only view never reads the report body: it issues no read
\* of results/{jobId}/analysis.json in any state, so for a job with a
\* completed marker and a missing report it still answers completed with the
\* fields taken from the marker.
C17_StatusNeverReadsReport ==
    req.route = "status" =>
        /\ ~Touched("report")
        /\ (ResolvedCompleted /\ store["report"] = Absent) =>
              /\ resp.statusCode = 200
              /\ resp.body.status = "completed"
              /\ resp.body.completedAt = Get(resolved, "timestamp", None)
              /\ ~Unreadable("completed") =>
                    resp.body.completedAt = store["completed"].completedAt

\* A completed marker without a report: the status view says completed.
C17_Witness ==
    /\ req.route = "status" /\ ResolvedCompleted
    /\ store["completed"] = CompletionData(1) /\ store["report"] = Absent
    /\ req.calls = <<Call("head", "completed", TRUE), Call("get", "completed", TRUE)>>
    /\ resp.statusCode = 200 /\ resp.body.completedAt = Clock(1)

ReadOnlyCalls == {"head", "get", "list", "presign"}

\* The step of a request: the bucket is as before, and every call was a read.
ReadOnlyStep ==
    req' # req =>
        /\ \A k \in Keys : store'[k] = store[k]
        /\ \A k \in 1..Len(req'.calls) : req'.calls[k].op \in ReadOnlyCalls

\* C19: the resolver and the three views are read-only: for any store state
\* and any request they leave every store object (upload, markers, report,
\* export) unchanged.
C19_ViewsAreReadOnly == [][ReadOnlyStep]_vars

\* A download that probed, read and pre-signed, over a bucket with every object.
C19_Witness ==
    /\ req.route = "download" /\ HandleReturned
    /\ \A key \in Keys \ {"metadata"} : store[key] # Absent
    /\ Len(req.calls) = 4 /\ req.calls[4].op = "presign"

(***************************************************************************)
(* The timeline of the results view (SpecTimeline).                        *)
(***************************************************************************)
\* The results view answered with the report.
ReportReturned ==
    /\ req.route = "results" /\ ResolvedCompleted
    /\ resp.statusCode = 200 /\ "results" \in DOMAIN resp.body

\* C18: for a completed job whose stored timeline has n entries: in summary
\* mode (details=false) the returned timeline is the first min(n, 10)
\* entries in stored order and the truncation flag is true exactly when
\* n > 10; in detailed mode all n entries are returned and no truncation
\* flag is set.
C18_SummaryTimeline ==
    ReportReturned =>
        LET stored == store["report"].timeline
            n == Len(stored)
            returned == resp.body.results
        IN  IF req.details
            THEN /\ returned.timeline = stored
                 /\ "timeline_truncated" \notin DOMAIN returned
            ELSE /\ Len(returned.timeline) = (IF n < 10 THEN n ELSE 10)
                 /\ \A k \in 1..Len(returned.timeline) : returned.timeline[k] = stored[k]
                 /\ returned.timeline_truncated = (n > 10)

\* Eleven entries stored, ten returned, the flag set.
C18_Witness ==
    /\ ReportReturned /\ ~req.details
    /\ Len(store["report"].timeline) = 11
    /\ Len(resp.body.results.timeline) = 10
    /\ resp.body.results.timeline_truncated

(***************************************************************************)
(* The job identifier (SpecJobId).                                         *)
(***************************************************************************)
\* The request was turned away for its job identifier.
Refused ==
    /\ resp.statusCode = 400
    /\ resp.body.error \in {"Missing jobId in path parameters", "Invalid jobId format"}

\* A string that starts with job-, of 10 to 100 characters, without "..",
\* "/" and "\".
WellFormed(job_id) ==
    /\ job_id.kind = "str"
    /\ LET c == job_id.chars
       IN  /\ Len(c) >= 10 /\ Len(c) <= 100
           /\ c[1] = "j" /\ c[2] = "o" /\ c[3] = "b" /\ c[4] = "-"
           /\ \A k \in 1..Len(c) :
                 /\ c[k] # "/" /\ c[k] # "\\"
                 /\ k < Len(c) => ~(c[k] = "." /\ c[k + 1] = ".")

\* C20: is_valid_job_id accepts a value exactly when it is a string that
\* starts with the prefix job-, has a length between 10 and 100 inclusive and
\* contains none of "..", "/" and "\": an id of length 100 is valid, one of
\* length 101 is not, and an id with a forbidden sequence is invalid whatever
\* its length. The handler turns away exactly the values it rejects.
C20_JobIdFormat ==
    req # NoRequest =>
        /\ IsValidJobId(req.job_id) <=> WellFormed(req.job_id)
        /\ Refused <=> ~WellFormed(req.job_id)

\* An identifier of 100 characters went through to the resolver.
C20_Witness ==
    /\ req # NoRequest /\ req.job_id.kind = "str"
    /\ Len(req.job_id.chars) = 100
    /\ ~Refused /\ req.route = "status" /\ resolved # NoObject

ReportStored == store["report"] # Absent

CountOf(counts, t) == IF t \in DOMAIN counts THEN counts[t] ELSE 0

\* The sum of the counts of the categories present.
CategoryTotal(counts) ==
    CountOf(counts, "cars") + CountOf(counts, "trucks") + CountOf(counts, "motorcycles")
        + CountOf(counts, "buses") + CountOf(counts, "vans")
        + CountOf(counts, "emergency_vehicles")

\* C22: for every detection list given to count_vehicles_by_type,
\* total_vehicles equals the sum of the counts of all categories present
\* (0 for the empty list).
C22_TotalIsSumOfCounts ==
    ReportStored =>
        LET counts == store["report"].vehicle_counts
        IN  /\ DOMAIN counts \subseteq VehicleTypes \cup {"total_vehicles"}
            /\ counts.total_vehicles = CategoryTotal(counts)
            /\ rp[1].vehicle_detections = <<>> => counts.total_vehicles = 0

\* Three detections, two of one car: the total is 2, the sum of 1 and 1.
C22_Witness ==
    /\ ReportStored
    /\ Len(rp[1].vehicle_detections) = 3
    /\ store["report"].vehicle_counts =
          [cars |-> 1, emergency_vehicles |-> 1, total_vehicles |-> 2]

\* C23: for every non-empty detection list, the counts contain an entry for
\* each of the six categories, with count 0 for a category that has no
\* detection (not omitted); only for the empty list may the result contain
\* total_vehicles alone.
C23_EveryCategoryReported ==
    ReportStored =>
        LET counts == store["report"].vehicle_counts
        IN  /\ "total_vehicles" \in DOMAIN counts
            /\ rp[1].vehicle_detections # <<>> =>
                  \A t \in VehicleTypes : t \in DOMAIN counts /\ counts[t] >= 0

\* The invocation went through process_vehicle_labels.
Classified == rp[1].analysis_results # NoObject

IsVehicleLabel(name) == \E t \in VehicleTypes : name \in VEHICLE_LABELS[t]

\* The instances of the label events: event index and instance index.
InstancesOf(labels) ==
    UNION {{<<l, j>> : j \in 1..Len(labels[l].Label.Instances)} : l \in 1..Len(labels)}

\* The label is a vehicle's, and its confidence and the instance's (the
\* label's when the instance carries none) reach the threshold.
Qualifies(labels, p) ==
    LET label == labels[p[1]].Label
        instance == label.Instances[p[2]]
        own == IF "Confidence" \in DOMAIN instance THEN instance.Confidence
               ELSE label.Confidence
    IN  /\ IsVehicleLabel(label.Name)
        /\ label.Confidence >= MIN_CONFIDENCE
        /\ own >= MIN_CONFIDENCE

DetectionOf(labels, p) == Detection(labels[p[1]], labels[p[1]].Label.Instances[p[2]])

\* C27: process_vehicle_labels produces a Detection for an instance exactly
\* when its label maps to a category, the label's aggregate confidence is at
\* or above the threshold and the instance's own confidence (the label's
\* when the instance carries none) is at or above it; a label under the
\* threshold, a label that is no vehicle and a label with no instances
\* produce no Detection, and no error is raised.
C27_DetectionExactlyWhenQualified ==
    Classified =>
        LET labels == rp[1].rekognition_results.Labels
            found == rp[1].vehicle_detections
            due == {p \in InstancesOf(labels) : Qualifies(labels, p)}
        IN  /\ Len(found) = Cardinality(due)
            /\ \A p \in due :
                  Cardinality({k \in 1..Len(found) : found[k] = DetectionOf(labels, p)})
                     = Cardinality({q \in due : DetectionOf(labels, q) = DetectionOf(labels, p)})
            /\ rp[1].error = None /\ rp[1].pc # "error"

\* A label under the threshold with an instance at it, then a car with one
\* instance over and one under the threshold: one detection, the car's.
C27_Witness ==
    /\ Classified
    /\ LET labels == rp[1].rekognition_results.Labels
       IN  /\ Len(labels) = 2
           /\ labels[1].Label.Confidence = MIN_CONFIDENCE - 1
           /\ Len(labels[1].Label.Instances) = 1
           /\ Get(labels[1].Label.Instances[1], "Confidence", 0) = MIN_CONFIDENCE
           /\ labels[2].Label.Name = "Car" /\ labels[2].Label.Confidence = MIN_CONFIDENCE
           /\ Len(labels[2].Label.Instances) = 2
           /\ Get(labels[2].Label.Instances[2], "Confidence", 0) = MIN_CONFIDENCE - 1
    /\ Len(rp[1].vehicle_detections) = 1
    /\ rp[1].vehicle_detections[1].confidence = 8500

\* The report and the export of the invocation are in the bucket.
ExportStored == ReportStored /\ store["export"] # Absent

\* C28: truncation applies only to the report's timeline: for n detections
\* the timeline is the first min(n, 100) of them in order, while the counts
\* are computed over all n, total_detections is n and the tabular export has
\* the header and exactly n rows.
C28_OnlyTimelineTruncated ==
    ExportStored =>
        LET all == rp[1].vehicle_detections
            n == Len(all)
            report == store["report"]
        IN  /\ Len(report.timeline) = (IF n < 100 THEN n ELSE 100)
            /\ \A k \in 1..Len(report.timeline) :
                  report.timeline[k] =
                     [timestamp |-> all[k].timestamp, vehicle_type |-> all[k].vehicle_type,
                      label_name |-> all[k].label_name, confidence |-> all[k].confidence]
            /\ report.vehicle_counts = CountVehiclesByType(all)
            /\ report.total_detections = n
            /\ report.processing_stats.total_detections = n
            /\ Len(store["export"].rows) = n + 1
            /\ store["export"].rows[1] = CsvHeader
            /\ \A k \in 1..n : store["export"].rows[k + 1][1] = all[k].timestamp

\* 101 cars, each a vehicle of its own: 100 timeline entries, 101 counted,
\* the export of 102 lines.
C28_Witness ==
    /\ ExportStored
    /\ Len(rp[1].vehicle_detections) = 101
    /\ Len(store["report"].timeline) = 100
    /\ store["report"].vehicle_counts = [cars |-> 101, total_vehicles |-> 101]
    /\ store["report"].total_detections = 101
    /\ Len(store["export"].rows) = 102

(***************************************************************************)
(* The clustering engine (SpecEngine).                                     *)
(***************************************************************************)
\* Call i of estimate_unique_vehicles has returned.
Estimated(i) == rp[i].entry = "estimate" /\ rp[i].pc = "returned"

\* The timestamps, in milliseconds, differ by at most 2.0 seconds.
Soon(a, b) == Abs(a.timestamp - b.timestamp) <= 2000

\* The box centers are at a distance of at most 0.1 (1000 of the 1e-4 units;
\* both sides doubled and squared).
Near(a, b) ==
    LET dx == (2 * a.bounding_box.left + a.bounding_box.width)
                 - (2 * b.bounding_box.left + b.bounding_box.width)
        dy == (2 * a.bounding_box.top + a.bounding_box.height)
                 - (2 * b.bounding_box.top + b.bounding_box.height)
    IN  dx * dx + dy * dy <= 2000 * 2000

\* C24: for two detections of one category given in timestamp order, the
\* unique count is 1 when their timestamps differ by at most TIME_WINDOW
\* (2.0 s) and their box centers are at a distance of at most
\* SPATIAL_THRESHOLD (0.1), both bounds inclusive; it is 2 when the centers
\* are farther apart, even at equal timestamps, and 2 when the timestamps
\* differ by more than TIME_WINDOW, even with identical boxes.
C24_PairOfDetections ==
    \A i \in Invocations :
       (Estimated(i) /\ Len(rp[i].detections) = 2) =>
           LET a == rp[i].detections[1]
               b == rp[i].detections[2]
           IN  a.timestamp <= b.timestamp =>
                  rp[i].result = (IF Soon(a, b) /\ Near(a, b) THEN 1 ELSE 2)

\* C25: estimate_unique_vehicles returns 0 for an empty list; for a list of
\* n >= 1 detections the unique count c satisfies 1 <= c <= n; a single
\* detection always gives exactly 1.
C25_CountBetweenOneAndN ==
    \A i \in Invocations :
       Estimated(i) =>
           LET n == Len(rp[i].detections)
               c == rp[i].result
           IN  /\ n = 0 => c = 0
               /\ n >= 1 => (1 <= c /\ c <= n)
               /\ n = 1 => c = 1

\* Three detections taken for two vehicles.
C25_Witness ==
    /\ Estimated(1)
    /\ Len(rp[1].detections) = 3
    /\ rp[1].result = 2

FirstFitPass(i) ==
    (rp[i].pc = "loop" /\ rp'[i].pc = "loop" /\ rp'[i].next = rp[i].next + 1) =>
        LET detection == rp[i].detections[rp[i].next]
            before == rp[i].unique_vehicles
            after == rp'[i].unique_vehicles
            hits == {j \in 1..Len(before) : Matches(detection, before[j])}
        IN  IF hits = {}
            THEN /\ Len(after) = Len(before) + 1
                 /\ \A k \in 1..Len(before) : after[k] = before[k]
                 /\ after[Len(after)] = [first_seen |-> detection.timestamp,
                                         last_seen |-> detection.timestamp,
                                         bbox |-> detection.bounding_box]
            ELSE /\ Len(after) = Len(before)
                 /\ \E j \in hits :
                       /\ \A h \in hits : j <= h
                       /\ after[j].first_seen = before[j].first_seen
                       /\ after[j].last_seen =
                             (IF before[j].last_seen > detection.timestamp
                              THEN before[j].last_seen ELSE detection.timestamp)
                       /\ after[j].bbox = detection.bounding_box
                       /\ \A k \in 1..Len(before) : k # j => after[k] = before[k]

\* C30: the clustering is first-fit: each detection updates exactly one
\* tracked vehicle, the earliest-created one that matches it (also when a
\* later-created one is closer), setting its last_seen to
\* max(last_seen, timestamp) and replacing its box, or else appends exactly
\* one new tracked vehicle; tracked vehicles are never removed, merged or
\* split, so the list never gets shorter during a pass.
C30_FirstFit == [][\A i \in Invocations : FirstFitPass(i)]_vars

\* A detection between two tracked vehicles, nearer to the second: the first
\* has its box, the second is as it was.
C30_Witness ==
    /\ rp[1].entry = "estimate" /\ rp[1].pc = "loop" /\ rp[1].next = 4
    /\ rp[1].detections[1].bounding_box.left = 0
    /\ rp[1].detections[2].bounding_box.left = 1500
    /\ rp[1].detections[3].bounding_box.left = 1000
    /\ rp[1].detections[3].timestamp = rp[1].detections[1].timestamp
    /\ Len(rp[1].unique_vehicles) = 2
    /\ rp[1].unique_vehicles[1].bbox.left = 1000
    /\ rp[1].unique_vehicles[2].bbox.left = 1500

\* A chain: the list is in timestamp order and every detection is within
\* TIME_WINDOW and SPATIAL_THRESHOLD of the one before it.
Chain(detections) ==
    \A k \in 1..(Len(detections) - 1) :
       /\ detections[k].timestamp <= detections[k + 1].timestamp
       /\ Soon(detections[k], detections[k + 1])
       /\ Near(detections[k], detections[k + 1])

\* C31: slow drift never breaks a match: for a timestamp-ordered chain of
\* detections of one category in which every detection is within TIME_WINDOW
\* and SPATIAL_THRESHOLD of the previous one, the unique count is 1, also when
\* the first and the last detection are farther apart than SPATIAL_THRESHOLD
\* and more than TIME_WINDOW apart.
C31_SlowDriftKeepsMatch ==
    \A i \in Invocations :
       (Estimated(i) /\ Len(rp[i].detections) >= 1 /\ Chain(rp[i].detections)) =>
           rp[i].result = 1

(***************************************************************************)
(* Temporal order (SpecAssembler).                                         *)
(***************************************************************************)
\* A report was assembled.
Assembled == rp[1].analysis_results # NoObject

\* The report came from process_successful_job, the labels classified first.
ByProcessor == Assembled /\ rp[1].pc = "put_json"

\* The types that have a detection.
TypesOf(vehicle_detections) ==
    {vehicle_detections[k].vehicle_type : k \in 1..Len(vehicle_detections)}

\* The timeline, and every type's detections as the clustering engine gets
\* them, are in ascending order of their timestamps.
InTemporalOrder ==
    /\ InTimestampOrder(rp[1].analysis_results.timeline)
    /\ \A t \in TypesOf(rp[1].vehicle_detections) :
          InTimestampOrder(TypeGroup(rp[1].vehicle_detections, t))

ResolvedState(st) == GetJobStatus(st, NoFaults).status

Rank(status) ==
    CASE status = "not_found" -> 0
      [] status = "pending" -> 1
      [] status = "processing" -> 2
      [] status = "failed" -> 3
      [] status = "completed" -> 4

\* C32: without store faults the resolved state of a job never moves backward
\* in the order not_found < pending < processing < failed < completed, over
\* every interleaving of the video processor and the results-processor
\* invocations: no step deletes a completed marker, a failed marker or an
\* upload object, the processing marker is deleted only when the completed
\* marker is there, and completed is absorbing.
C32_NeverBackward ==
    [][/\ Rank(ResolvedState(store')) >= Rank(ResolvedState(store))
       /\ \A key \in {"completed", "failed", "upload"} :
             store[key] # Absent => store'[key] # Absent
       /\ (store["processing"] # Absent /\ store'["processing"] = Absent) =>
             store["completed"] # Absent
       /\ ResolvedState(store) = "completed" => ResolvedState(store') = "completed"]_vars

\* A duplicate delivery failed after the job was completed and cleaned up: the
\* failed marker is there and the job still resolves as completed.
C32_Witness ==
    /\ store["completed"] # Absent /\ store["failed"] # Absent
    /\ store["processing"] = Absent
    /\ \E i \in Invocations :
          Did(i, "delete", "processing", TRUE) /\ Did(3 - i, "put", "failed", TRUE)
    /\ ResolvedState(store) = "completed"

(***************************************************************************)
(* The results objects (SpecInterrupted).                                  *)
(***************************************************************************)
ResultsKeys == {"report", "export", "completed"}

\* C33: in every reachable store state, also after the writer stopped between
\* two writes and after interleaved duplicate invocations, a completed marker
\* results/{jobId}/completed.json implies both results/{jobId}/analysis.json
\* and results/{jobId}/detections.csv: the marker is written last and no
\* operation deletes a results object.
C33_CompletedImpliesArtifacts ==
    /\ [](store["completed"] # Absent =>
             store["report"] # Absent /\ store["export"] # Absent)
    /\ [][\A key \in ResultsKeys : store[key] # Absent => store'[key] # Absent]_vars

\* One invocation stopped before its completed marker, the other wrote the
\* marker, and a put of the sequence failed for neither.
C33_Witness ==
    /\ store["completed"] # Absent
    /\ \E i \in Invocations :
          /\ rp[i].pc = "crashed"
          /\ Did(i, "put", "report", TRUE)
          /\ Did(3 - i, "put", "completed", TRUE)

(***************************************************************************)
(* A resolution beside the completion steps (SpecResolving).               *)
(***************************************************************************)
\* The resolution returned, and it began when the job had its upload object
\* and its processing marker and the results processor had not yet put the
\* completed marker.
ResolvedDuringCompletion ==
    /\ ResolverAt("returned")
    /\ req.at_start["upload"] # Absent
    /\ req.at_start["processing"] # Absent
    /\ req.at_start["completed"] = Absent
    /\ Did(1, "put", "completed", TRUE)

\* C34: a resolution that runs beside the results processor's completion
\* steps (put of the completed marker, then delete of the processing marker),
\* for a job that had an upload object and a processing marker when the
\* resolution began, returns processing or completed, never pending or
\* not_found.
C34_ProcessingOrCompleted ==
    ResolvedDuringCompletion => resolved.status \in {"processing", "completed"}

(***************************************************************************)
(* The processing marker after the completion (SpecIntended).              *)
(***************************************************************************)
\* C35: with one video-processor invocation and one results-processor
\* invocation, once the results processor has deleted the processing marker
\* after it saved the results, the processing marker is absent: the read and
\* the later write of update_processing_marker do not create it again.
C35_MarkerStaysDeleted ==
    Did(1, "delete", "processing", TRUE) => store["processing"] = Absent

(***************************************************************************)
(* The job identifier in the processors (SpecEvents).                      *)
(***************************************************************************)
\* A put or a delete that one of the two processors made and that succeeded.
Changes(calls) == {k \in 1..Len(calls) : calls[k].op \in {"put", "delete"} /\ calls[k].ok}

\* C36: the video processor and the results processor validate the job
\* identifier taken from the upload key, or from the notification's tag,
\* against the format contract before they build a key from it: for an
\* identifier that violates the contract no store object is written or
\* deleted.
C36_NoChangeForInvalidId ==
    (vp.pc # "record" /\ ~IsValidJobId(vp.job_id)) =>
        Changes(vp.calls) = {} /\ Changes(rp[1].calls) = {}

(***************************************************************************)
(* The pages of the label results (SpecPaging).                            *)
(***************************************************************************)
\* The get_label_detection calls an invocation made that succeeded.
PagesFetched(i) ==
    Cardinality({k \in 1..Len(rp[i].calls) :
                    rp[i].calls[k] = Call("get_labels", "rekognition", TRUE)})

\* The loop of get_rekognition_results is running.
Fetching(i) == rp[i].pc = "fetch"

\* C37: get_rekognition_results fetches the pages one after another until a
\* page carries no continuation token and returns the labels of every page
\* concatenated in page order; while the loop runs nothing is classified and
\* nothing is written, and the report, the export and the completed marker
\* are written only when every page was fetched; the loop terminates, the
\* service's pages being finitely many.
C37_AllPagesInOrder ==
    /\ [](/\ Fetching(1) =>
               /\ rp[1].all_labels = Flatten(SubSeq(svc.pages, 1, rp[1].next - 1))
               /\ PagesFetched(1) = rp[1].next - 1
               /\ rp[1].vehicle_detections = <<>> /\ rp[1].analysis_results = NoObject
               /\ Changes(rp[1].calls) = {}
          /\ rp[1].rekognition_results # NoObject =>
               /\ rp[1].rekognition_results.Labels = Flatten(svc.pages)
               /\ PagesFetched(1) = Len(svc.pages)
          /\ (\E key \in {"report", "export", "completed"} : Did(1, "put", key, TRUE)) =>
               PagesFetched(1) = Len(svc.pages))
    /\ (Fetching(1) ~> ~Fetching(1))

\* Three pages were fetched, the second without labels, and the results saved.
C37_Witness ==
    /\ rp[1].pc = "done" /\ Did(1, "put", "completed", TRUE)
    /\ Len(svc.pages) = 3 /\ svc.pages[2] = <<>> /\ svc.pages[1] # svc.pages[3]
    /\ PagesFetched(1) = 3
    /\ rp[1].rekognition_results.Labels = svc.pages[1] \o svc.pages[3]

(***************************************************************************)
(* The confidence bands (SpecBands).                                       *)
(***************************************************************************)
\* The bands as stated, on confidences in hundredths.
InHigh(d) == d.confidence >= 9000

InMedium(d) == d.confidence >= 8000 /\ d.confidence < 9000

InLow(d) == 10 * d.confidence >= MIN_CONFIDENCE /\ d.confidence < 8000

BandsOf(d) ==
    (IF InHigh(d) THEN {"high"} ELSE {}) \cup (IF InMedium(d) THEN {"medium"} ELSE {})
    \cup (IF InLow(d) THEN {"low"} ELSE {})

Distribution(i) == rp[i].analysis_results.processing_stats.confidence_distribution

\* C38: the confidence bands partition the detections the classifier
\* produced: each detection is in exactly one of high (>= 90), medium
\* (>= 80 and < 90) and low (>= MIN_CONFIDENCE and < 80), the three counts
\* of the report are the sizes of these bands, and their sum is
\* total_detections.
C38_BandsPartition ==
    rp[1].analysis_results # NoObject =>
        LET detections == rp[1].vehicle_detections
            stats == rp[1].analysis_results.processing_stats
        IN  /\ \A k \in 1..Len(detections) : Cardinality(BandsOf(detections[k])) = 1
            /\ Distribution(1).high_confidence = CountWhere(detections, InHigh)
            /\ Distribution(1).medium_confidence = CountWhere(detections, InMedium)
            /\ Distribution(1).low_confidence = CountWhere(detections, InLow)
            /\ stats.total_detections = Len(detections)
            /\ Distribution(1).high_confidence + Distribution(1).medium_confidence
                 + Distribution(1).low_confidence = stats.total_detections

\* A report of two detections: one at the threshold, counted low, and one
\* that the rounding brought to 80, counted medium.
C38_Witness ==
    /\ rp[1].analysis_results # NoObject
    /\ Len(rp[1].vehicle_detections) = 2
    /\ \E k \in 1..2 : rp[1].vehicle_detections[k].confidence = 7000
    /\ \E k \in 1..2 : rp[1].vehicle_detections[k].confidence = 8000
    /\ Flatten(svc.pages)[1].Label.Instances[1].Confidence = 79995
    /\ Distribution(1) = [high_confidence |-> 0, medium_confidence |-> 1, low_confidence |-> 1]

(***************************************************************************)
(* The identifiers of the upload handler at the results API                *)
(* (SpecGenerated).                                                        *)
(***************************************************************************)
\* C39: every job identifier generate_job_id produces is accepted by
\* is_valid_job_id: it starts with job-, its length is within 10..100 and it
\* contains none of "..", "/" and "\", so a request for a job the upload
\* handler created is never refused for the format of its identifier.
C39_GeneratedIdAccepted ==
    req # NoRequest =>
        /\ IsValidJobId(req.job_id)
        /\ SubSeq(req.job_id.chars, 1, 4) = <<"j", "o", "b", "-">>
        /\ Len(req.job_id.chars) = 28
        /\ \A k \in 1..28 : req.job_id.chars[k] \notin {".", "/", "\\"}
        /\ ~Refused

\* A status request for job-99991231-235959-f9f9f9f9 was answered 200.
C39_Witness ==
    /\ req # NoRequest /\ req.route = "status"
    /\ req.job_id = Str(<<"j", "o", "b", "-", "9", "9", "9", "9", "1", "2", "3", "1", "-",
                          "2", "3", "5", "9", "5", "9", "-",
                          "9", "f", "9", "f", "9", "f", "9", "f">>)
    /\ resp.statusCode = 200

====
